---- MODULE Spec2Model ----
(***************************************************************************)
(* Garagem: the vehicle hierarchy of jss/carro.js and the fleet store of   *)
(* jss/garagem.js (in-memory map `garagem`, LocalStorage persistence,      *)
(* form handlers).  The classes CarroEsportivo, Caminhao and Manutencao    *)
(* are used by both files but defined in neither; they are modelled from   *)
(* the specification and marked so where they are defined.                 *)
(*                                                                         *)
(* Encoding of JavaScript values:                                          *)
(*   text        a string; Nulo stands for undefined/null                  *)
(*   Date        an integer instant in hours since the epoch; DataNula is  *)
(*               null and DataInvalida an Invalid Date (NaN time)          *)
(*   ano         an integer; AnoNulo (0) is null, exact because the code   *)
(*               stores `parseInt(x) || null`, which sends 0 to null       *)
(*   raw values  (constructor arguments, JSON fields) are tagged records:  *)
(*               [num |-> n], [txt |-> s], [ymd |-> day], [iso |-> t],     *)
(*               [date |-> t], [nulo |-> TRUE]                             *)
(***************************************************************************)
EXTENDS Integers, Sequences, FiniteSets, Bags, TLC

VARIABLES
  garagem,    \* garagem.js:10   id -> vehicle object (the in-memory fleet)
  storage,    \* localStorage[GARAGEM_KEY]: Ausente, Corrompido or [blob |-> id -> JSON]
  agora,      \* the clock read by Date.now() (garagem.js:488)
  leituras,   \* FileReader reads started by an edit and not yet completed
  aceitas,    \* id -> bag of the valid records adicionarManutencao accepted on garagem[id]
  ultima,     \* the last operation run: its name, target, return value, saves and alerts
  ctor        \* the last direct constructor call: arguments and result

vars == <<garagem, storage, agora, leituras, aceitas, ultima, ctor>>

----------------------------------------------------------------------------
(* Bounds of the model *)

\* Largest value the clock reaches; added vehicles get the ids v0 .. vMaxRelogio.
MaxRelogio == 1
\* Longest maintenance history built by adicionarManutencao.
MaxHistorico == 3
\* Most FileReader reads pending at once.
MaxLeituras == 2

----------------------------------------------------------------------------
(* JavaScript values *)

Nulo == "<undefined>"
AnoNulo == 0
DataNula == -1
DataInvalida == -2
\* One day in the unit of the instants (hours); the code divides milliseconds by 1e3*60*60*24.
HorasPorDia == 24

NuloJS == [nulo |-> TRUE]

\* !x for a text value.
Falsy(x) == x \in {Nulo, ""}

\* String.prototype.trim on the texts of the model.
Trim(s) ==
  CASE s = " " -> ""
    [] s = " Gol " -> "Gol"
    [] s = " Prata " -> "Prata"
    [] s = " abc1d23 " -> "abc1d23"
    [] s = " Oleo " -> "Oleo"
    [] s = " vencida " -> "vencida"
    [] OTHER -> s

\* String.prototype.toUpperCase on the texts of the model.
ToUpperCase(s) ==
  CASE s = "abc1d23" -> "ABC1D23"
    [] s = " abc1d23 " -> " ABC1D23 "
    [] s = "vencida" -> "VENCIDA"
    [] s = " vencida " -> " VENCIDA "
    [] OTHER -> s

\* String(x || padrao).trim()
TextoOu(x, padrao) == Trim(IF Falsy(x) THEN padrao ELSE x)

\* parseInt on the form texts of the model; NaN is returned as AnoNulo's partner below.
ParseIntTexto(s) ==
  CASE s = "1975" -> 1975
    [] s = "2020" -> 2020
    [] s = "2020abc" -> 2020
    [] s = "0" -> 0
    [] OTHER -> 0

\* parseInt(x) || null for a raw value: NaN and 0 both give null.
ParseIntOuNull(x) ==
  IF "num" \in DOMAIN x THEN x.num
  ELSE IF "txt" \in DOMAIN x THEN ParseIntTexto(x.txt)
  ELSE AnoNulo

\* x instanceof Date ? x : (x ? new Date(x) : null), then null for an Invalid Date
\* (carro.js:23-26).  A date-only text parses as UTC midnight of its day.
ParseData(x) ==
  LET d == IF "date" \in DOMAIN x THEN x.date
           ELSE IF "iso" \in DOMAIN x THEN x.iso
           ELSE IF "ymd" \in DOMAIN x THEN x.ymd * HorasPorDia
           ELSE IF "txt" \in DOMAIN x /\ x.txt # "" THEN DataInvalida
           ELSE DataNula
  IN IF d = DataInvalida THEN DataNula ELSE d

\* date?.toISOString() || null
ToISO(d) == IF d \in {DataNula, DataInvalida} THEN NuloJS ELSE [iso |-> d]

\* A number or null as a JSON value.
NumJSON(n) == IF n = AnoNulo THEN NuloJS ELSE [num |-> n]

----------------------------------------------------------------------------
(* Manutencao: used by carro.js and garagem.js, defined in neither *)

\* new Manutencao(data, tipo, custo, descricao): stores the fields, never throws.
Manutencao(data, tipo, custo, descricao) ==
  [data |-> IF "txt" \in DOMAIN data /\ data.txt # "" THEN DataInvalida
            ELSE IF "date" \in DOMAIN data THEN data.date
            ELSE IF "iso" \in DOMAIN data THEN data.iso
            ELSE IF "ymd" \in DOMAIN data THEN data.ymd * HorasPorDia
            ELSE DataInvalida,
   tipo |-> IF tipo = Nulo THEN "" ELSE tipo,
   custo |-> IF custo < 0 THEN 0 ELSE custo,
   descricao |-> IF descricao = Nulo THEN "" ELSE descricao]

\* Manutencao.validar(): the date is a real instant and the trimmed type is non-empty.
validar(m) == m.data \notin {DataNula, DataInvalida} /\ Trim(m.tipo) # ""

\* Manutencao.toJSON(): the plain structure, or null for an invalid record.
manutencaoToJSON(m) ==
  IF validar(m)
  THEN [data |-> ToISO(m.data), tipo |-> m.tipo, custo |-> m.custo, descricao |-> m.descricao]
  ELSE NuloJS

----------------------------------------------------------------------------
(* CarroBase and its subclasses *)

ErroObrigatorios == [erro |-> "ID e Modelo sao obrigatorios para criar um veiculo."]

Lancou(r) == "erro" \in DOMAIN r

\* The constructor requiring only the id.
CarroBase_SoId(id, modelo, cor, imagemSrc, placa, ano, dataVencimentoCNH) ==
  IF Falsy(id) THEN ErroObrigatorios
  ELSE [classe |-> "CarroBase",
        id |-> id,
        modelo |-> TextoOu(modelo, "Modelo Padrao"),
        cor |-> TextoOu(cor, "Cor Padrao"),
        imagemSrc |-> IF Falsy(imagemSrc) THEN "default_car.png" ELSE imagemSrc,
        placa |-> ToUpperCase(TextoOu(placa, "")),
        ano |-> ParseIntOuNull(ano),
        dataVencimentoCNH |-> ParseData(dataVencimentoCNH),
        velocidade |-> 0,
        ligado |-> FALSE,
        historicoManutencao |-> <<>>]

\* carro.js:13-33
CarroBase(id, modelo, cor, imagemSrc, placa, ano, dataVencimentoCNH) ==
  IF Falsy(id) \/ Falsy(modelo) THEN ErroObrigatorios
  ELSE [classe |-> "CarroBase",
        id |-> id,
        modelo |-> TextoOu(modelo, "Modelo Padrao"),
        cor |-> TextoOu(cor, "Cor Padrao"),
        imagemSrc |-> IF Falsy(imagemSrc) THEN "default_car.png" ELSE imagemSrc,
        placa |-> ToUpperCase(TextoOu(placa, "")),
        ano |-> ParseIntOuNull(ano),
        dataVencimentoCNH |-> ParseData(dataVencimentoCNH),
        velocidade |-> 0,
        ligado |-> FALSE,
        historicoManutencao |-> <<>>]

\* Adds the fields of r to the record v (a subclass constructor's own assignments).
Com(v, r) == [k \in DOMAIN v \cup DOMAIN r |-> IF k \in DOMAIN r THEN r[k] ELSE v[k]]

\* new CarroEsportivo(...args): the base fields plus turboAtivado = false.
CarroEsportivo(id, modelo, cor, imagemSrc, placa, ano, dataVencimentoCNH) ==
  LET b == CarroBase(id, modelo, cor, imagemSrc, placa, ano, dataVencimentoCNH)
  IN IF Lancou(b) THEN b ELSE Com(b, [classe |-> "CarroEsportivo", turboAtivado |-> FALSE])

\* new Caminhao(...args, capacidadeCarga): the base fields plus the capacity
\* (a number, 0 when absent or invalid) and cargaAtual = 0.
Caminhao(id, modelo, cor, imagemSrc, placa, ano, dataVencimentoCNH, capacidadeCarga) ==
  LET b == CarroBase(id, modelo, cor, imagemSrc, placa, ano, dataVencimentoCNH)
      cap == ParseIntOuNull(capacidadeCarga)
  IN IF Lancou(b) THEN b
     ELSE Com(b, [classe |-> "Caminhao",
                  capacidadeCarga |-> IF cap < 0 THEN 0 ELSE cap,
                  cargaAtual |-> 0])

\* carro.js:236: the top speed of each class.
maxVel(classe) ==
  IF classe = "CarroEsportivo" THEN 250 ELSE IF classe = "Caminhao" THEN 140 ELSE 200

\* Step of acelerar (carro.js:73) and of frear (carro.js:88).
PassoAcelerar == 10
PassoFrear == 15

Min(a, b) == IF a < b THEN a ELSE b
Max(a, b) == IF a > b THEN a ELSE b

\* ligar switching the vehicle off when it is running.
ligar_Alterna(v) == [v EXCEPT !.ligado = ~@]

\* carro.js:42-48
ligar(v) == IF ~v.ligado THEN [v EXCEPT !.ligado = TRUE] ELSE v

\* desligar without the reset of the speed.
desligar_SemZerar(v) == IF v.ligado THEN [v EXCEPT !.ligado = FALSE] ELSE v

\* carro.js:55-62
desligar(v) == IF v.ligado THEN [v EXCEPT !.ligado = FALSE, !.velocidade = 0] ELSE v

\* acelerar without the cap at the top speed.
acelerarBase_SemTeto(v) ==
  IF v.ligado THEN [v EXCEPT !.velocidade = v.velocidade + PassoAcelerar] ELSE v

\* acelerar taking effect on a vehicle that is off.
acelerarBase_SemLigado(v) == [v EXCEPT !.velocidade = Min(v.velocidade + PassoAcelerar, 200)]

\* carro.js:70-79, CarroBase.acelerar with VELOCIDADE_MAXIMA_BASE = 200.
acelerarBase(v) ==
  IF v.ligado THEN [v EXCEPT !.velocidade = Min(v.velocidade + PassoAcelerar, 200)] ELSE v

\* The overrides of CarroEsportivo and Caminhao: the same step, capped at the class's top speed.
acelerarSubclasse(v) ==
  IF v.ligado THEN [v EXCEPT !.velocidade = Min(v.velocidade + PassoAcelerar, maxVel(v.classe))]
  ELSE v

\* v.acelerar(): polymorphic dispatch (garagem.js:421).
acelerar(v) == IF v.classe = "CarroBase" THEN acelerarBase(v) ELSE acelerarSubclasse(v)

\* The alert of acelerar on a vehicle that is off (carro.js:77).
AlertaLigue == "Ligue o veiculo para acelerar!"

\* frear without the floor at 0.
frear_SemPiso(v) ==
  IF v.velocidade > 0 THEN [v EXCEPT !.velocidade = v.velocidade - PassoFrear] ELSE v

\* carro.js:86-92
frear(v) ==
  IF v.velocidade > 0 THEN [v EXCEPT !.velocidade = Max(v.velocidade - PassoFrear, 0)] ELSE v

----------------------------------------------------------------------------
(* Maintenance history *)

\* The sort key of carro.js:124: b.data?.getTime() || 0.
ChaveData(m) == IF m.data \in {DataNula, DataInvalida} THEN 0 ELSE m.data

\* Inserts x after every element whose key is >= its own (a stable descending insert).
RECURSIVE InserirDesc(_, _)
InserirDesc(s, x) ==
  IF s = <<>> THEN <<x>>
  ELSE IF ChaveData(Head(s)) >= ChaveData(x) THEN <<Head(s)>> \o InserirDesc(Tail(s), x)
  ELSE <<x>> \o s

\* carro.js:124: Array.prototype.sort (stable) with the comparator b - a on the keys.
RECURSIVE OrdenarDesc(_)
OrdenarDesc(s) ==
  IF s = <<>> THEN <<>>
  ELSE InserirDesc(OrdenarDesc(SubSeq(s, 1, Len(s) - 1)), s[Len(s)])

AlertaManutInvalida == "Dados da manutencao invalidos. Verifique data e tipo."

\* adicionarManutencao pushing the record before it validates it.
adicionarManutencao_SemValidar(v, m) ==
  [ret |-> validar(m), v |-> [v EXCEPT !.historicoManutencao = OrdenarDesc(Append(@, m))]]

\* adicionarManutencao without the sort.
adicionarManutencao_SemOrdenar(v, m) ==
  IF ~validar(m) THEN [ret |-> FALSE, v |-> v]
  ELSE [ret |-> TRUE, v |-> [v EXCEPT !.historicoManutencao = Append(@, m)]]

\* carro.js:112-131 without the save: [ret, v].  The save that follows a success is
\* made by the caller below, as the method calls the global salvarGaragem().
adicionarManutencao(v, m) ==
  IF ~validar(m) THEN [ret |-> FALSE, v |-> v]
  ELSE [ret |-> TRUE,
        v |-> [v EXCEPT !.historicoManutencao = OrdenarDesc(Append(@, m))]]

\* The clearing that leaves the first record of the history in place.
limparHistoricoManutencao_MantemPrimeiro(v) ==
  [v EXCEPT !.historicoManutencao = IF @ = <<>> THEN <<>> ELSE <<Head(@)>>]

\* carro.js:156-157
limparHistoricoManutencao(v) == [v EXCEPT !.historicoManutencao = <<>>]

----------------------------------------------------------------------------
(* Serialization and the persistent store *)

\* carro.js:306-309: filter(valid).map(toJSON).filter(not null) on the history.
RECURSIVE HistoricoJSON(_)
HistoricoJSON(s) ==
  IF s = <<>> THEN <<>>
  ELSE LET j == manutencaoToJSON(Head(s))
       IN (IF validar(Head(s)) /\ j # NuloJS THEN <<j>> ELSE <<>>) \o HistoricoJSON(Tail(s))

\* carro.js:304-339
toJSON(v) ==
  LET hist == HistoricoJSON(v.historicoManutencao)
      data == [id |-> v.id,
               modelo |-> v.modelo,
               cor |-> v.cor,
               placa |-> v.placa,
               ano |-> NumJSON(v.ano),
               dataVencimentoCNH |-> ToISO(v.dataVencimentoCNH),
               velocidade |-> v.velocidade,
               ligado |-> v.ligado,
               imagemSrc |-> v.imagemSrc,
               tipoVeiculo |-> v.classe,
               historicoManutencao |-> hist]
  IN IF v.classe = "CarroEsportivo" THEN Com(data, [turboAtivado |-> v.turboAtivado])
     ELSE IF v.classe = "Caminhao"
          THEN Com(data, [capacidadeCarga |-> v.capacidadeCarga, cargaAtual |-> v.cargaAtual])
     ELSE data

Ausente == [ausente |-> TRUE]
Corrompido == [corrompido |-> TRUE]

\* JSON.stringify(garagem): each vehicle through its toJSON, under its key.
Stringify(g) == [blob |-> [id \in DOMAIN g |-> toJSON(g[id])]]

\* Outcomes of localStorage.setItem: it returns, throws QuotaExceededError, or throws another error.
Resultados == {"ok", "quota", "erro"}

AlertaQuota == "ERRO CRITICO AO SALVAR! O armazenamento local esta cheio."
AlertaErroSalvar == "Ocorreu um erro inesperado ao salvar os dados da garagem."

\* salvarGaragem showing the generic alert for every failure.
salvarGaragem_UmAlerta(g, st, r) ==
  [ret |-> IF r = "ok" THEN "true" ELSE "false",
   storage |-> IF r = "ok" THEN Stringify(g) ELSE st,
   alertas |-> IF r = "ok" THEN <<>> ELSE <<AlertaErroSalvar>>,
   garagem |-> g]

\* garagem.js:25-41 for the setItem outcome r: the return value, the store, the alert
\* shown and the fleet the call leaves in memory.
salvarGaragem(g, st, r) ==
  [ret |-> IF r = "ok" THEN "true" ELSE "false",
   storage |-> IF r = "ok" THEN Stringify(g) ELSE st,
   alertas |-> IF r = "ok" THEN <<>>
               ELSE IF r = "quota" THEN <<AlertaQuota>> ELSE <<AlertaErroSalvar>>,
   garagem |-> g]

\* d?.k for a JSON object d: the field, or Nulo when it is missing.
Campo(d, k, padrao) == IF k \in DOMAIN d THEN d[k] ELSE padrao

\* The history rebuilt without calling validar() on the records.
RECURSIVE RecriarHistorico_SemValidar(_)
RecriarHistorico_SemValidar(js) ==
  IF js = <<>> THEN <<>>
  ELSE LET m == Head(js)
           semDados == m = NuloJS
                       \/ Campo(m, "data", NuloJS) = NuloJS
                       \/ Falsy(Campo(m, "tipo", Nulo))
       IN (IF semDados THEN <<>>
           ELSE <<Manutencao(m.data, m.tipo, Campo(m, "custo", 0), Campo(m, "descricao", Nulo))>>)
          \o RecriarHistorico_SemValidar(Tail(js))

\* garagem.js:69-71: the stored records rebuilt, the invalid ones dropped.
RECURSIVE RecriarHistorico(_)
RecriarHistorico(js) ==
  IF js = <<>> THEN <<>>
  ELSE LET m == Head(js)
           semDados == m = NuloJS
                       \/ Campo(m, "data", NuloJS) = NuloJS
                       \/ Falsy(Campo(m, "tipo", Nulo))
           novo == Manutencao(m.data, m.tipo, Campo(m, "custo", 0), Campo(m, "descricao", Nulo))
       IN (IF semDados THEN <<>> ELSE IF validar(novo) THEN <<novo>> ELSE <<>>)
          \o RecriarHistorico(Tail(js))

\* A stored value that is truthy and not an array where the history is expected (a
\* number, a text, an object): written as a function on {0}, which no sequence is.
NaoArray == 0 :> 5

\* garagem.js:69-70: `(d.historicoManutencao || []).map` is not a function, so the
\* statement throws a TypeError; it stands before the inner try of garagem.js:73.
HistoricoNaoArray(d) == 0 \in DOMAIN Campo(d, "historicoManutencao", <<>>)

\* The minimal validation asking for a colour as well.
EntradaInvalida_ExigeCor(d) ==
  Falsy(Campo(d, "id", Nulo)) \/ Falsy(Campo(d, "modelo", Nulo))
    \/ Falsy(Campo(d, "tipoVeiculo", Nulo)) \/ Falsy(Campo(d, "cor", Nulo))

\* garagem.js:62: the minimal validation of a stored entry.
EntradaInvalida(d) ==
  Falsy(Campo(d, "id", Nulo)) \/ Falsy(Campo(d, "modelo", Nulo))
    \/ Falsy(Campo(d, "tipoVeiculo", Nulo))

\* The reconstruction building a CarroBase whatever the stored type.
RecriarVeiculo_TudoBase(d) ==
  LET inst == CarroBase(d.id, d.modelo, Campo(d, "cor", Nulo), Campo(d, "imagemSrc", Nulo),
                        Campo(d, "placa", Nulo), Campo(d, "ano", NuloJS),
                        Campo(d, "dataVencimentoCNH", NuloJS))
  IN IF Lancou(inst) THEN inst
     ELSE [inst EXCEPT !.velocidade = Campo(d, "velocidade", 0),
                       !.ligado = Campo(d, "ligado", FALSE),
                       !.historicoManutencao =
                          RecriarHistorico(Campo(d, "historicoManutencao", <<>>))]

\* The reconstruction building the Caminhao without its stored capacity.
RecriarVeiculo_SemCapacidade(d) ==
  LET hist == RecriarHistorico(Campo(d, "historicoManutencao", <<>>))
      cor == Campo(d, "cor", Nulo)
      img == Campo(d, "imagemSrc", Nulo)
      placa == Campo(d, "placa", Nulo)
      ano == Campo(d, "ano", NuloJS)
      cnh == Campo(d, "dataVencimentoCNH", NuloJS)
      inst == IF d.tipoVeiculo = "CarroEsportivo"
              THEN LET e == CarroEsportivo(d.id, d.modelo, cor, img, placa, ano, cnh)
                   IN IF Lancou(e) THEN e
                      ELSE [e EXCEPT !.turboAtivado = Campo(d, "turboAtivado", FALSE)]
              ELSE IF d.tipoVeiculo = "Caminhao"
              THEN LET c == Caminhao(d.id, d.modelo, cor, img, placa, ano, cnh,
                                     [num |-> 0])
                   IN IF Lancou(c) THEN c
                      ELSE [c EXCEPT !.cargaAtual = Campo(d, "cargaAtual", 0)]
              ELSE CarroBase(d.id, d.modelo, cor, img, placa, ano, cnh)
  IN IF Lancou(inst) THEN inst
     ELSE [inst EXCEPT !.velocidade = Campo(d, "velocidade", 0),
                       !.ligado = Campo(d, "ligado", FALSE),
                       !.historicoManutencao = hist]

\* The reconstruction restoring the stored speed and leaving the vehicle off.
RecriarVeiculo_SemLigado(d) ==
  LET hist == RecriarHistorico(Campo(d, "historicoManutencao", <<>>))
      cor == Campo(d, "cor", Nulo)
      img == Campo(d, "imagemSrc", Nulo)
      placa == Campo(d, "placa", Nulo)
      ano == Campo(d, "ano", NuloJS)
      cnh == Campo(d, "dataVencimentoCNH", NuloJS)
      inst == IF d.tipoVeiculo = "CarroEsportivo"
              THEN LET e == CarroEsportivo(d.id, d.modelo, cor, img, placa, ano, cnh)
                   IN IF Lancou(e) THEN e
                      ELSE [e EXCEPT !.turboAtivado = Campo(d, "turboAtivado", FALSE)]
              ELSE IF d.tipoVeiculo = "Caminhao"
              THEN LET c == Caminhao(d.id, d.modelo, cor, img, placa, ano, cnh,
                                     [num |-> Campo(d, "capacidadeCarga", 0)])
                   IN IF Lancou(c) THEN c
                      ELSE [c EXCEPT !.cargaAtual = Campo(d, "cargaAtual", 0)]
              ELSE CarroBase(d.id, d.modelo, cor, img, placa, ano, cnh)
  IN IF Lancou(inst) THEN inst
     ELSE [inst EXCEPT !.velocidade = Campo(d, "velocidade", 0),
                       !.historicoManutencao = hist]

\* garagem.js:67-95: the vehicle rebuilt from the stored entry d (an error record when
\* the constructor throws).
RecriarVeiculo(d) ==
  LET hist == RecriarHistorico(Campo(d, "historicoManutencao", <<>>))
      cor == Campo(d, "cor", Nulo)
      img == Campo(d, "imagemSrc", Nulo)
      placa == Campo(d, "placa", Nulo)
      ano == Campo(d, "ano", NuloJS)
      cnh == Campo(d, "dataVencimentoCNH", NuloJS)
      inst == IF d.tipoVeiculo = "CarroEsportivo"
              THEN LET e == CarroEsportivo(d.id, d.modelo, cor, img, placa, ano, cnh)
                   IN IF Lancou(e) THEN e
                      ELSE [e EXCEPT !.turboAtivado = Campo(d, "turboAtivado", FALSE)]
              ELSE IF d.tipoVeiculo = "Caminhao"
              THEN LET c == Caminhao(d.id, d.modelo, cor, img, placa, ano, cnh,
                                     [num |-> Campo(d, "capacidadeCarga", 0)])
                   IN IF Lancou(c) THEN c
                      ELSE [c EXCEPT !.cargaAtual = Campo(d, "cargaAtual", 0)]
              ELSE CarroBase(d.id, d.modelo, cor, img, placa, ano, cnh)
  IN IF Lancou(inst) THEN inst
     ELSE [inst EXCEPT !.velocidade = Campo(d, "velocidade", 0),
                       !.ligado = Campo(d, "ligado", FALSE),
                       !.historicoManutencao = hist]

\* garagem.js:59-71: the loop reaches an entry that passes the minimal validation and
\* whose history throws; the error leaves the loop and lands in the catch of
\* garagem.js:103, like a text that does not parse.
LacoLanca(blob) ==
  \E id \in DOMAIN blob : ~EntradaInvalida(blob[id]) /\ HistoricoNaoArray(blob[id])

\* garagem.js:56-102: the fleet rebuilt from a blob that parses; entries that fail the
\* minimal validation or whose reconstruction throws are skipped.
RecriarGaragem(blob) ==
  LET aceitos == {id \in DOMAIN blob :
                    ~EntradaInvalida(blob[id]) /\ ~Lancou(RecriarVeiculo(blob[id]))}
  IN [id \in aceitos |-> RecriarVeiculo(blob[id])]

----------------------------------------------------------------------------
(* The default fleet *)

\* The dates of garagem.js:132-138 as days since the epoch.
Dia20230110 == 19367
Dia20231115 == 19676
Dia20240110 == 19732
Dia20241231 == 20088
Dia20250601 == 20240

IdsPadrao == {"carro1", "carro2", "cam1"}

\* garagem.js:132-134
VeiculosPadrao ==
  [id \in IdsPadrao |->
     IF id = "carro1"
     THEN CarroBase("carro1", "Fusca", "Azul", "default_car.png", "ABC1234",
                    [num |-> 1975], [ymd |-> Dia20241231])
     ELSE IF id = "carro2"
     THEN CarroEsportivo("carro2", "Maverick", "Laranja", "default_sport.png", "DEF5678",
                         [num |-> 1974], [ymd |-> Dia20250601])
     ELSE Caminhao("cam1", "Scania 113", "Vermelho", "default_truck.png", "GHI9012",
                   [num |-> 1995], [ymd |-> Dia20230110], [num |-> 20000])]

\* garagem.js:137-138
ManutPadraoCarro1 == Manutencao([ymd |-> Dia20231115], "Troca Pneu", 250, Nulo)
ManutPadraoCam1 == Manutencao([ymd |-> Dia20240110], "Revisao Motor", 1200, "Fumaca estranha")

\* The bag of the elements of a sequence.
RECURSIVE SeqParaBag(_)
SeqParaBag(s) == IF s = <<>> THEN EmptyBag ELSE SetToBag({Head(s)}) (+) SeqParaBag(Tail(s))

\* v.adicionarManutencao(m) on garagem[id] with its call of salvarGaragem (carro.js:112-131),
\* r being the outcome of that save: the return value, fleet, store, saves and alerts.
AdicionarESalvarCom(a, g, st, id, r) ==
  IF a.ret
  THEN [ret |-> "true",
        garagem |-> [g EXCEPT ![id] = a.v],
        storage |-> salvarGaragem([g EXCEPT ![id] = a.v], st, r).storage,
        saves |-> <<r>>,
        alertas |-> salvarGaragem([g EXCEPT ![id] = a.v], st, r).alertas]
  ELSE [ret |-> "false", garagem |-> [g EXCEPT ![id] = a.v], storage |-> st, saves |-> <<>>,
        alertas |-> <<AlertaManutInvalida>>]

\* The call that takes the record out again and returns false when the save failed.
AdicionarESalvar_DesfazSeFalha(g, st, id, m, r) ==
  LET e == AdicionarESalvarCom(adicionarManutencao(g[id], m), g, st, id, r)
  IN IF e.ret = "true" /\ r # "ok" THEN [e EXCEPT !.ret = "false", !.garagem = g] ELSE e

AdicionarESalvar(g, st, id, m, r) == AdicionarESalvarCom(adicionarManutencao(g[id], m), g, st, id, r)

\* The seeding emptying the fleet when its last save fails.
PadraoFim_VaziaSeFalha(e1, e2, s3, r3) ==
  [garagem |-> IF s3.ret = "true" THEN s3.garagem ELSE <<>>,
   storage |-> s3.storage,
   saves |-> e1.saves \o e2.saves \o <<r3>>,
   alertas |-> e1.alertas \o e2.alertas \o s3.alertas,
   aceitas |-> IF s3.ret = "true"
               THEN [id \in DOMAIN s3.garagem |-> SeqParaBag(s3.garagem[id].historicoManutencao)]
               ELSE <<>>]

\* garagem.js:142-151: the last save of the defaults and what the seeding leaves.
PadraoFim(e1, e2, s3, r3) ==
  [garagem |-> s3.garagem,
   storage |-> s3.storage,
   saves |-> e1.saves \o e2.saves \o <<r3>>,
   alertas |-> e1.alertas \o e2.alertas \o s3.alertas,
   aceitas |-> [id \in DOMAIN s3.garagem |-> SeqParaBag(s3.garagem[id].historicoManutencao)]]

\* garagem.js:138
PadraoCam1(e1, e2, r3) == PadraoFim(e1, e2, salvarGaragem(e2.garagem, e2.storage, r3), r3)

\* garagem.js:137
PadraoCarro1(e1, r2, r3) ==
  PadraoCam1(e1, AdicionarESalvar(e1.garagem, e1.storage, "cam1", ManutPadraoCam1, r2), r3)

\* garagem.js:127-152 from the store st, with r1, r2, r3 the outcomes of the three
\* saves (one in each adicionarManutencao, one at the end).
inicializarVeiculosPadrao(st, r1, r2, r3) ==
  PadraoCarro1(AdicionarESalvar(VeiculosPadrao, st, "carro1", ManutPadraoCarro1, r1), r2, r3)

AlertaErroCarregar == "Erro ao carregar dados salvos. Resetando para garagem padrao."

ComAlertaAntes(p, alerta) == [p EXCEPT !.alertas = <<alerta>> \o @]

Recarregada(g, st) ==
  [garagem |-> g, storage |-> st, saves |-> <<>>, alertas |-> <<>>,
   aceitas |-> [id \in DOMAIN g |-> EmptyBag]]

\* carregarGaragem seeding the defaults without removing the text that failed to parse.
carregarGaragem_SemRemover(st, r1, r2, r3) ==
  IF "blob" \in DOMAIN st /\ ~LacoLanca(st.blob) THEN Recarregada(RecriarGaragem(st.blob), st)
  ELSE IF st # Ausente
       THEN ComAlertaAntes(inicializarVeiculosPadrao(st, r1, r2, r3), AlertaErroCarregar)
  ELSE inicializarVeiculosPadrao(Ausente, r1, r2, r3)

\* garagem.js:51-119 from the store st: the fleet, the store, the saves and the alerts
\* the load leaves.  A blob that fails to parse is removed before the defaults are seeded.
carregarGaragem(st, r1, r2, r3) ==
  IF "blob" \in DOMAIN st /\ ~LacoLanca(st.blob) THEN Recarregada(RecriarGaragem(st.blob), st)
  ELSE IF st # Ausente
       THEN ComAlertaAntes(inicializarVeiculosPadrao(Ausente, r1, r2, r3), AlertaErroCarregar)
  ELSE inicializarVeiculosPadrao(Ausente, r1, r2, r3)

----------------------------------------------------------------------------
(* Operations *)

\* The record of an operation: its name, target, argument, return value ("true", "false",
\* "void"), the outcomes of its saves in order, and the alerts it showed.
Feito(op, id, arg, ret, saves, alertas) ==
  [op |-> op, id |-> id, arg |-> arg, ret |-> ret, saves |-> saves, alertas |-> alertas]

\* The actions interagir dispatches to the vehicle's methods of carro.js.
AcoesComuns == {"ligar", "desligar", "acelerar", "frear", "buzinar"}

\* garagem.js:409-442 on a vehicle of the fleet: the vehicle after the action.
interagir(v, acao) ==
  CASE acao = "ligar" -> ligar(v)
    [] acao = "desligar" -> desligar(v)
    [] acao = "acelerar" -> acelerar(v)
    [] acao = "frear" -> frear(v)
    [] OTHER -> v

\* The click whose action ends by saving the fleet.
Interagir_Salva(id, acao) ==
  /\ id \in DOMAIN garagem
  /\ garagem' = [garagem EXCEPT ![id] = interagir(@, acao)]
  /\ storage' = Stringify(garagem')
  /\ ultima' = Feito(acao, id, NuloJS, "void", <<"ok">>,
                     IF acao = "acelerar" /\ ~garagem[id].ligado THEN <<AlertaLigue>> ELSE <<>>)
  /\ UNCHANGED <<agora, leituras, aceitas, ctor>>

\* A click on an action button of the displayed vehicle (garagem.js:380-398, 409-442).
Interagir(id, acao) ==
  /\ id \in DOMAIN garagem
  /\ garagem' = [garagem EXCEPT ![id] = interagir(@, acao)]
  /\ ultima' = Feito(acao, id, NuloJS, "void", <<>>,
                     IF acao = "acelerar" /\ ~garagem[id].ligado THEN <<AlertaLigue>> ELSE <<>>)
  /\ UNCHANGED <<storage, agora, leituras, aceitas, ctor>>

\* garagem.js:683-695 with the confirmation given: the history is emptied and the fleet saved.
HandleLimparHistorico(id, r) ==
  /\ id \in DOMAIN garagem
  /\ \E s \in {salvarGaragem([garagem EXCEPT ![id] = limparHistoricoManutencao(@)], storage, r)} :
        /\ garagem' = s.garagem
        /\ storage' = s.storage
        /\ ultima' = Feito("limparHistorico", id, NuloJS, "void", <<r>>, s.alertas)
  /\ aceitas' = [aceitas EXCEPT ![id] = EmptyBag]
  /\ UNCHANGED <<agora, leituras, ctor>>

\* The page is (re)loaded: inicializarAplicacao runs carregarGaragem on a fresh heap
\* (garagem.js:834-845), so the reads pending in the old page are gone.
CarregarGaragem(r1, r2, r3) ==
  /\ \E c \in {carregarGaragem(storage, r1, r2, r3)} :
        /\ garagem' = c.garagem
        /\ storage' = c.storage
        /\ aceitas' = c.aceitas
        /\ ultima' = Feito("carregarGaragem", Nulo,
                           [corrompido |-> storage = Corrompido, antes |-> DOMAIN garagem,
                            store |-> storage],
                           "void", c.saves, c.alertas)
  /\ leituras' = <<>>
  /\ UNCHANGED <<agora, ctor>>

Inicio == Feito("inicio", Nulo, NuloJS, "void", <<>>, <<>>)
SemCtor == [feito |-> FALSE]

----------------------------------------------------------------------------
(* SpecVeiculo: one vehicle of each class driven, saved and reloaded *)

AcoesVeiculo == {"ligar", "desligar", "acelerar", "frear"}

\* A fleet holding one of the default vehicles, as persisted (the two others deleted).
InitVeiculo ==
  \E id \in IdsPadrao :
    /\ garagem = [k \in {id} |-> inicializarVeiculosPadrao(Ausente, "ok", "ok", "ok").garagem[k]]
    /\ storage = Stringify(garagem)
    /\ agora = 0
    /\ leituras = <<>>
    /\ aceitas = [k \in {id} |-> EmptyBag]
    /\ ultima = Inicio
    /\ ctor = SemCtor

NextVeiculo ==
  \/ \E id \in DOMAIN garagem, acao \in AcoesVeiculo : Interagir(id, acao)
  \/ \E id \in DOMAIN garagem, r \in Resultados : HandleLimparHistorico(id, r)
  \/ CarregarGaragem("ok", "ok", "ok")

SpecVeiculo == InitVeiculo /\ [][NextVeiculo]_vars

\* C1: after any sequence of start, stop, accelerate and brake calls the speed of every
\* vehicle lies in [0, maxSpeed], maxSpeed being 200 for CarroBase, 250 for
\* CarroEsportivo and 140 for Caminhao.
C1_VelocidadeNoIntervalo ==
  \A id \in DOMAIN garagem :
    LET v == garagem[id]
    IN /\ v.velocidade >= 0
       /\ v.classe = "CarroBase" => v.velocidade <= 200
       /\ v.classe = "CarroEsportivo" => v.velocidade <= 250
       /\ v.classe = "Caminhao" => v.velocidade <= 140

\* A CarroBase that accelerate has just brought to its top speed.
C1_Witness ==
  /\ ultima.op = "acelerar"
  /\ ultima.id \in DOMAIN garagem
  /\ garagem[ultima.id].classe = "CarroBase"
  /\ garagem[ultima.id].velocidade = 200

\* C2: immediately after desligar returns, the vehicle has speed 0 and is not running.
C2_DesligarZera ==
  (ultima.op = "desligar" /\ ultima.id \in DOMAIN garagem)
    => (garagem[ultima.id].velocidade = 0 /\ ~garagem[ultima.id].ligado)

\* desligar has run on a vehicle that was moving: the step took its speed to 0.
C2_Witness ==
  /\ ultima.op = "desligar"
  /\ garagem[ultima.id].velocidade = 0
  /\ ~garagem[ultima.id].ligado
  /\ \E id \in DOMAIN storage.blob : storage.blob[id].velocidade > 0


\* The step taken is the action `acao` on some vehicle of the garage.
Acionou(acao) == ultima'.op = acao /\ ultima'.id \in DOMAIN garagem

\* Only the vehicle acted on may differ after the step, and nothing is persisted.
SoOVeiculo ==
  /\ DOMAIN garagem' = DOMAIN garagem
  /\ \A k \in DOMAIN garagem \ {ultima'.id} : garagem'[k] = garagem[k]
  /\ storage' = storage

\* C16: accelerate on a running vehicle sets the speed to min(speed + 10, maxSpeed of
\* its class) and changes no other field; on a vehicle that is not running it emits one
\* notification and changes no field.
C16_Acelerar ==
  [][Acionou("acelerar") =>
       /\ SoOVeiculo
       /\ LET v == garagem[ultima'.id]
          IN IF v.ligado
               THEN /\ garagem'[ultima'.id] =
                         [v EXCEPT !.velocidade = Min(v.velocidade + 10, maxVel(v.classe))]
                    /\ ultima'.alertas = <<>>
               ELSE /\ garagem'[ultima'.id] = v
                    /\ ultima'.alertas = <<AlertaLigue>>]_vars

\* A running truck that accelerate has just brought to the top speed of its class.
C16_Witness ==
  /\ ultima.op = "acelerar"
  /\ ultima.id \in DOMAIN garagem
  /\ garagem[ultima.id].classe = "Caminhao"
  /\ garagem[ultima.id].ligado
  /\ garagem[ultima.id].velocidade = 140

\* C17: brake sets the speed to max(speed - 15, 0) whether or not the vehicle is
\* running, never changes the running flag, and changes nothing when the speed is 0.
C17_Frear ==
  [][Acionou("frear") =>
       /\ SoOVeiculo
       /\ ultima'.alertas = <<>>
       /\ LET v == garagem[ultima'.id]
          IN /\ garagem'[ultima'.id] = [v EXCEPT !.velocidade = Max(v.velocidade - 15, 0)]
             /\ garagem'[ultima'.id].ligado = v.ligado
             /\ v.velocidade = 0 => garagem'[ultima'.id] = v]_vars

\* A running vehicle that brake has just brought from 20 to 5.
C17_Witness ==
  /\ ultima.op = "frear"
  /\ ultima.id \in DOMAIN garagem
  /\ garagem[ultima.id].ligado
  /\ garagem[ultima.id].velocidade = 5


\* C22: start turns a vehicle that is off on with its speed still 0 and changes nothing
\* on a running vehicle; stop changes nothing on a vehicle that is off; neither
\* changes a field other than the running flag and the speed.
C22_LigarDesligar ==
  [][/\ Acionou("ligar") =>
          /\ SoOVeiculo
          /\ LET v == garagem[ultima'.id]
             IN IF v.ligado THEN garagem'[ultima'.id] = v
                ELSE /\ garagem'[ultima'.id] = [v EXCEPT !.ligado = TRUE]
                     /\ garagem'[ultima'.id].velocidade = 0
     /\ Acionou("desligar") =>
          /\ SoOVeiculo
          /\ LET v == garagem[ultima'.id]
             IN /\ ~v.ligado => garagem'[ultima'.id] = v
                /\ [garagem'[ultima'.id] EXCEPT !.ligado = v.ligado,
                                                !.velocidade = v.velocidade] = v]_vars

\* Start was pressed on a vehicle that was running and moving, and it still is.
C22_Witness ==
  /\ ultima.op = "ligar"
  /\ ultima.id \in DOMAIN garagem
  /\ garagem[ultima.id].ligado
  /\ garagem[ultima.id].velocidade = 30

----------------------------------------------------------------------------
(* SpecManut: maintenance records added to the default Maverick *)

\* Hours between local time and UTC in the browser's time zone (UTC-3).
FusoHoras == 3

\* The texts of a date input (a day, or empty), of a time input and of a type input.
DatasForm == {[ymd |-> 20500], [txt |-> ""]}
HorasForm == {[txt |-> ""], [hm |-> 10], [txt |-> "25h"]}
TiposForm == {"", " ", "Oleo", " Oleo "}

\* Records a caller may hand to adicionarManutencao, the invalid ones included.
DatasArg == {[ymd |-> 19000], [ymd |-> Dia20231115], [ymd |-> 20500], [txt |-> "amanha"]}
TiposArg == {"", " ", "Oleo", "Freio"}

IdsManut == {"carro2"}

\* v.adicionarManutencao(m) called on garagem[id] (carro.js:112-131), r the outcome of
\* the save it makes.
AdicionarManutencao(id, m, r) ==
  /\ id \in DOMAIN garagem
  /\ Len(garagem[id].historicoManutencao) < MaxHistorico
  /\ \E e \in {AdicionarESalvar(garagem, storage, id, m, r)} :
        /\ garagem' = e.garagem
        /\ storage' = e.storage
        /\ ultima' = Feito("adicionarManutencao", id, m, e.ret, e.saves, e.alertas)
        /\ aceitas' = IF e.ret = "true"
                      THEN [aceitas EXCEPT ![id] = @ (+) SetToBag({m})]
                      ELSE aceitas
  /\ UNCHANGED <<agora, leituras, ctor>>

AlertaDataTipo == "Data e Tipo sao obrigatorios para agendar/adicionar manutencao!"
AlertaDataHora == "Data/Hora invalida!"

\* new Date(`${dS}T${hS}:00`): the local date and time as an instant.
DataHoraLocal(dS, hS) ==
  [date |-> dS.ymd * HorasPorDia + (IF "hm" \in DOMAIN hS THEN hS.hm ELSE 0) + FusoHoras]

\* garagem.js:647-675: the submit of the scheduling form of garagem[id].
HandleAgendarManutencao(id, dS, hS, tS, r) ==
  /\ id \in DOMAIN garagem
  /\ Len(garagem[id].historicoManutencao) < MaxHistorico
  /\ IF "txt" \in DOMAIN dS \/ Trim(tS) = ""
     THEN /\ ultima' = Feito("handleAgendarManutencao", id, NuloJS, "void", <<>>, <<AlertaDataTipo>>)
          /\ UNCHANGED <<garagem, storage, aceitas>>
     ELSE IF "txt" \in DOMAIN hS /\ hS.txt # ""
     THEN /\ ultima' = Feito("handleAgendarManutencao", id, NuloJS, "void", <<>>, <<AlertaDataHora>>)
          /\ UNCHANGED <<garagem, storage, aceitas>>
     ELSE \E m \in {Manutencao(DataHoraLocal(dS, hS), Trim(tS), 0, "")} :
          \E e \in {AdicionarESalvar(garagem, storage, id, m, r)} :
            /\ garagem' = e.garagem
            /\ storage' = e.storage
            /\ ultima' = Feito("handleAgendarManutencao", id, m, "void", e.saves, e.alertas)
            /\ aceitas' = IF e.ret = "true"
                          THEN [aceitas EXCEPT ![id] = @ (+) SetToBag({m})]
                          ELSE aceitas
  /\ UNCHANGED <<agora, leituras, ctor>>

\* The state the first page load leaves when the store is empty.
InitPadrao ==
  \E r1 \in Resultados, r2 \in Resultados, r3 \in Resultados :
    \E c \in {carregarGaragem(Ausente, r1, r2, r3)} :
      /\ garagem = c.garagem
      /\ storage = c.storage
      /\ aceitas = c.aceitas
      /\ ultima = Feito("carregarGaragem", Nulo, [corrompido |-> FALSE, antes |-> {}, store |-> Ausente],
                        "void", c.saves, c.alertas)
      /\ agora = 0
      /\ leituras = <<>>
      /\ ctor = SemCtor

NextManut ==
  \/ \E id \in IdsManut, d \in DatasArg, t \in TiposArg, r \in Resultados :
        AdicionarManutencao(id, Manutencao(d, t, 0, Nulo), r)
  \/ \E id \in IdsManut, d \in DatasForm, h \in HorasForm, t \in TiposForm, r \in Resultados :
        HandleAgendarManutencao(id, d, h, t, r)

SpecManut == InitPadrao /\ [][NextManut]_vars

\* C7: adicionarManutencao called with an invalid record (its date does not parse, or
\* its type is empty after trimming) returns false, leaves the fleet (so the history)
\* unchanged and makes no save.
C7_ManutInvalidaRejeitada ==
  [][(/\ ultima'.op = "adicionarManutencao"
      /\ (ultima'.arg.data \in {DataNula, DataInvalida} \/ Trim(ultima'.arg.tipo) = ""))
     => (/\ ultima'.ret = "false"
         /\ garagem' = garagem
         /\ storage' = storage
         /\ ultima'.saves = <<>>)]_vars

\* adicionarManutencao has just refused a record whose type is blank.
C7_Witness ==
  /\ ultima.op = "adicionarManutencao"
  /\ ultima.arg.tipo = " "
  /\ ultima.arg.data = 20500 * HorasPorDia
  /\ ultima.ret = "false"

\* C8: after any sequence of adicionarManutencao calls the history is sorted by date,
\* newest first, and holds exactly the valid records that were added.
C8_HistoricoOrdenado ==
  \A id \in DOMAIN garagem :
    LET h == garagem[id].historicoManutencao
    IN /\ \A i \in 1..Len(h) : \A j \in 1..Len(h) : i < j => h[i].data >= h[j].data
       /\ SeqParaBag(h) = aceitas[id]

\* Records dated after, then before, then between: the history reads newest first.
C8_Witness ==
  /\ Len(garagem["carro2"].historicoManutencao) = 3
  /\ garagem["carro2"].historicoManutencao[1].data = 20500 * HorasPorDia
  /\ garagem["carro2"].historicoManutencao[2].data = Dia20231115 * HorasPorDia
  /\ garagem["carro2"].historicoManutencao[3].data = 19000 * HorasPorDia
  /\ ultima.op = "adicionarManutencao"
  /\ ultima.arg.data = Dia20231115 * HorasPorDia

----------------------------------------------------------------------------
(* The fleet: vehicles added and deleted, the store written, lost and reloaded *)

\* The fleet g without the key id (delete garagem[id]).
SemChave(g, id) == [k \in DOMAIN g \ {id} |-> g[k]]

\* garagem.js:488: `v${Date.now()}` when the clock reads t.
IdNovo(t) == "v" \o ToString(t)

AlertaModeloTipo == "Modelo e Tipo sao obrigatorios!"
AlertaErroAdicionar == "Erro ao adicionar veiculo. Verifique os dados."
AlertaAdicionado == "Veiculo adicionado com sucesso!"

\* garagem.js:490: the default image of the chosen type.
ImagemPadrao(tipo) ==
  IF tipo = "CarroEsportivo" THEN "default_sport.png"
  ELSE IF tipo = "Caminhao" THEN "default_truck.png" ELSE "default_car.png"

\* garagem.js:475-500: the instance built from the fields f of the add form under the
\* id nId (an error record when the constructor throws).
NovoVeiculo(nId, f) ==
  LET mod == Trim(f.modelo)
      cor == Trim(f.cor)
      plc == ToUpperCase(Trim(f.placa))
      capCg == IF f.tipo = "Caminhao" THEN f.capacidade ELSE [num |-> 0]
      dtCnh == IF f.cnh = [txt |-> ""] THEN NuloJS ELSE f.cnh
      imgP == ImagemPadrao(f.tipo)
  IN IF f.tipo = "CarroEsportivo" THEN CarroEsportivo(nId, mod, cor, imgP, plc, f.ano, dtCnh)
     ELSE IF f.tipo = "Caminhao" THEN Caminhao(nId, mod, cor, imgP, plc, f.ano, dtCnh, capCg)
     ELSE CarroBase(nId, mod, cor, imgP, plc, f.ano, dtCnh)

\* The add that keeps the new vehicle in memory whatever the save returned.
AposSalvarAdicao_SemDesfazer(s, nId) == s.garagem

\* garagem.js:504-519: the fleet after the save s of an add under nId; a failed save
\* takes the new key out again.
AposSalvarAdicao(s, nId) == IF s.ret = "true" THEN s.garagem ELSE SemChave(s.garagem, nId)

\* The pending reads ls once garagem[id] of the fleet g stops being the object under
\* that key: each read that captured it keeps the object itself (garagem.js:538, 580).
Soltar(ls, id, g) ==
  [i \in DOMAIN ls |->
     IF ls[i].vid = id /\ ls[i].solto = NuloJS /\ id \in DOMAIN g
     THEN [ls[i] EXCEPT !.solto = g[id]] ELSE ls[i]]

\* The ghost `aceitas` carried over to the fleet g: new keys start empty.
AceitasEm(g, a) == [k \in DOMAIN g |-> IF k \in DOMAIN a THEN a[k] ELSE EmptyBag]

\* garagem.js:471-525: the submit of the add form with the fields f; r is the outcome
\* of the save.
HandleAdicionarVeiculo(f, r) ==
  /\ IF Falsy(Trim(f.modelo)) \/ Falsy(f.tipo)
     THEN /\ ultima' = Feito("handleAdicionarVeiculo", Nulo, NuloJS, "void", <<>>,
                             <<AlertaModeloTipo>>)
          /\ UNCHANGED <<garagem, storage, aceitas>>
     ELSE \E nId \in {IdNovo(agora)} : \E nV \in {NovoVeiculo(nId, f)} :
            IF Lancou(nV)
            THEN /\ garagem' = SemChave(garagem, nId)
                 /\ aceitas' = AceitasEm(garagem', aceitas)
                 /\ ultima' = Feito("handleAdicionarVeiculo", nId, NuloJS, "void", <<>>,
                                    <<AlertaErroAdicionar>>)
                 /\ UNCHANGED storage
            ELSE \E s \in {salvarGaragem(Com(garagem, nId :> nV), storage, r)} :
                   /\ garagem' = AposSalvarAdicao(s, nId)
                   /\ storage' = s.storage
                   /\ aceitas' = AceitasEm(garagem', SemChave(aceitas, nId))
                   /\ ultima' = Feito("handleAdicionarVeiculo", nId, NuloJS, "void", <<r>>,
                                      IF s.ret = "true" THEN <<AlertaAdicionado>>
                                      ELSE s.alertas)
  /\ leituras' = IF Falsy(Trim(f.modelo)) \/ Falsy(f.tipo) THEN leituras
                 ELSE Soltar(leituras, IdNovo(agora), garagem)
  /\ UNCHANGED <<agora, ctor>>


AlertaExcluido == "Veiculo excluido com sucesso."
AlertaErroExcluir == "ERRO GRAVE: Nao foi possivel salvar a exclusao do veiculo."

\* garagem.js:703-724 with the confirmation given: the key is deleted and the fleet
\* saved; a failed save leaves the vehicle deleted in memory and present in the store.
HandleExcluirVeiculo(id, r) ==
  /\ id \in DOMAIN garagem
  /\ \E s \in {salvarGaragem(SemChave(garagem, id), storage, r)} :
        /\ garagem' = s.garagem
        /\ storage' = s.storage
        /\ ultima' = Feito("handleExcluirVeiculo", id, NuloJS, "void", <<r>>,
                           s.alertas \o <<IF s.ret = "true" THEN AlertaExcluido
                                          ELSE AlertaErroExcluir>>)
  /\ aceitas' = SemChave(aceitas, id)
  /\ leituras' = Soltar(leituras, id, garagem)
  /\ UNCHANGED <<agora, ctor>>

\* salvarGaragem() called on the fleet as it stands (garagem.js:25-41), r the outcome
\* of setItem.
SalvarGaragem(r) ==
  /\ \E s \in {salvarGaragem(garagem, storage, r)} :
        /\ garagem' = s.garagem
        /\ storage' = s.storage
        /\ ultima' = Feito("salvarGaragem", Nulo, NuloJS, s.ret, <<r>>, s.alertas)
  /\ UNCHANGED <<agora, leituras, aceitas, ctor>>

\* The stored text is overwritten from outside the page with one JSON.parse rejects
\* (the case garagem.js:103-108 handles).
Corromper ==
  /\ storage # Corrompido
  /\ storage' = Corrompido
  /\ ultima' = Feito("corromper", Nulo, NuloJS, "void", <<>>, <<>>)
  /\ UNCHANGED <<garagem, agora, leituras, aceitas, ctor>>

\* Time passes: Date.now() reads a later instant.
Tick ==
  /\ agora < MaxRelogio
  /\ agora' = agora + 1
  /\ UNCHANGED <<garagem, storage, leituras, aceitas, ultima, ctor>>

\* The fields submitted in the add form.
FormsAdicionar ==
  {[modelo |-> m, cor |-> "", placa |-> " abc1d23 ", ano |-> [txt |-> "2020abc"],
    tipo |-> t, capacidade |-> [txt |-> "2020"], cnh |-> [txt |-> ""]] :
     m \in {" ", " Gol "}, t \in {"", "CarroBase", "Caminhao"}}

\* The vehicles the delete button is pressed on: a default one and the added ones.
ParaExcluir == {"carro1"} \cup {IdNovo(t) : t \in 0..MaxRelogio}

Next ==
  \/ \E f \in FormsAdicionar, r \in Resultados : HandleAdicionarVeiculo(f, r)
  \/ \E id \in ParaExcluir, r \in Resultados : HandleExcluirVeiculo(id, r)
  \/ \E r \in Resultados : SalvarGaragem(r)
  \/ \E r1 \in Resultados, r2 \in Resultados, r3 \in Resultados : CarregarGaragem(r1, r2, r3)
  \/ Corromper
  \/ Tick

Spec == InitPadrao /\ [][Next]_vars

\* C4: when the save that follows an add reports failure, the add is rolled back: the
\* new vehicle's id is not a key of the fleet once the add has completed.
C4_AdicaoDesfeita ==
  (ultima.op = "handleAdicionarVeiculo" /\ ultima.saves \in {<<"quota">>, <<"erro">>})
    => ultima.id \notin DOMAIN garagem

\* An add whose save hit the quota has completed, and the store still holds the fleet
\* as it was before it.
C4_Witness ==
  /\ ultima.op = "handleAdicionarVeiculo"
  /\ ultima.saves = <<"quota">>
  /\ ultima.id = "v1"
  /\ "v0" \in DOMAIN garagem
  /\ ultima.id \notin DOMAIN garagem

\* The fleet inicializarVeiculosPadrao builds (garagem.js:132-138): the three default
\* vehicles, the Fusca and the Scania with one maintenance record each.
FrotaPadrao ==
  [id \in IdsPadrao |->
     IF id = "carro1" THEN [VeiculosPadrao[id] EXCEPT !.historicoManutencao = <<ManutPadraoCarro1>>]
     ELSE IF id = "cam1" THEN [VeiculosPadrao[id] EXCEPT !.historicoManutencao = <<ManutPadraoCam1>>]
     ELSE VeiculosPadrao[id]]

\* C6: a load that finds a stored text that does not parse removes the key and leaves
\* the default fleet in memory: nothing of the old text or of the fleet held before the
\* load remains, and the store is empty or holds what the seeding saved.
C6_CargaCorrompida ==
  (ultima.op = "carregarGaragem" /\ ultima.arg.corrompido)
    => /\ garagem = FrotaPadrao
       /\ storage # Corrompido
       /\ AlertaErroCarregar \in {ultima.alertas[i] : i \in DOMAIN ultima.alertas}
       /\ ("ok" \notin {ultima.saves[i] : i \in DOMAIN ultima.saves}) => storage = Ausente
       /\ ultima.saves[3] = "ok" => storage = Stringify(FrotaPadrao)

\* A load has met a corrupted text while the fleet held an added vehicle and no longer
\* the Fusca; every save of the seeding failed, so the key stays removed.
C6_Witness ==
  /\ ultima.op = "carregarGaragem"
  /\ ultima.arg.corrompido
  /\ "v0" \in ultima.arg.antes
  /\ "carro1" \notin ultima.arg.antes
  /\ ultima.saves = <<"quota", "erro", "quota">>
  /\ storage = Ausente
  /\ DOMAIN garagem = IdsPadrao

\* C10: salvarGaragem returns for every outcome of the write: true when it succeeded and
\* false when it failed, with one alert for a quota failure and another for any other
\* failure; it leaves the fleet as it was and writes the store only on success.
C10_SalvarNaoLanca ==
  [][ultima'.op = "salvarGaragem"
     => /\ garagem' = garagem
        /\ ultima'.ret \in {"true", "false"}
        /\ ultima'.ret = "true" <=> ultima'.saves = <<"ok">>
        /\ ultima'.saves = <<"ok">> => (ultima'.alertas = <<>> /\ storage' = Stringify(garagem))
        /\ ultima'.saves = <<"quota">> => (ultima'.alertas = <<AlertaQuota>> /\ storage' = storage)
        /\ ultima'.saves = <<"erro">> => (ultima'.alertas = <<AlertaErroSalvar>> /\ storage' = storage)
        /\ AlertaQuota # AlertaErroSalvar]_vars

\* A save has failed on the quota and said so, the store keeping an older fleet.
C10_Witness ==
  /\ ultima.op = "salvarGaragem"
  /\ ultima.ret = "false"
  /\ ultima.alertas = <<AlertaQuota>>
  /\ "blob" \in DOMAIN storage
  /\ storage # Stringify(garagem)

\* C15: the seeding leaves in memory the fixed default fleet, one CarroBase, one
\* CarroEsportivo and one Caminhao with the example maintenance records, whether the
\* three saves it makes succeed or fail.
C15_PadraoEmMemoria ==
  (ultima.op = "carregarGaragem" /\ Len(ultima.saves) = 3)
    => /\ DOMAIN garagem = IdsPadrao
       /\ garagem["carro1"].classe = "CarroBase" /\ garagem["carro1"].modelo = "Fusca"
       /\ garagem["carro2"].classe = "CarroEsportivo" /\ garagem["carro2"].modelo = "Maverick"
       /\ garagem["cam1"].classe = "Caminhao" /\ garagem["cam1"].modelo = "Scania 113"
       /\ garagem["carro1"].historicoManutencao = <<ManutPadraoCarro1>>
       /\ garagem["carro2"].historicoManutencao = <<>>
       /\ garagem["cam1"].historicoManutencao = <<ManutPadraoCam1>>
       /\ \A id \in IdsPadrao : garagem[id].velocidade = 0 /\ ~garagem[id].ligado

\* The Fusca was deleted with nothing stored; a reload has seeded the defaults again
\* while every save failed.
C15_Witness ==
  /\ ultima.op = "carregarGaragem"
  /\ ultima.saves = <<"erro", "quota", "erro">>
  /\ ultima.arg.antes = {"carro2", "cam1"}
  /\ ultima.arg.store = Ausente
  /\ storage = Ausente
  /\ DOMAIN garagem = IdsPadrao

----------------------------------------------------------------------------
(* SpecConstrutor: the constructor called on its own, and through the add form *)

\* new CarroBase(...) with raw arguments: the call is recorded with what it returned
\* or threw; the constructor touches nothing but the new object (carro.js:13-33).
Construir(id, modelo, cor, ano, cnh) ==
  /\ ctor' = [feito |-> TRUE, id |-> id, modelo |-> modelo,
              res |-> CarroBase(id, modelo, cor, Nulo, Nulo, ano, cnh)]
  /\ UNCHANGED <<garagem, storage, agora, leituras, aceitas, ultima>>

IdsCtor == {Nulo, "", "x1"}
ModelosCtor == {Nulo, "", " ", "Gol", " Gol "}
CoresCtor == {Nulo, " Prata "}
AnosCtor == {NuloJS, [txt |-> "2020abc"], [num |-> 1975]}
DatasCtor == {NuloJS, [ymd |-> Dia20241231], [txt |-> "amanha"]}

\* The fleet as the first load seeds and saves it.
InitConstrutor ==
  \E c \in {carregarGaragem(Ausente, "ok", "ok", "ok")} :
    /\ garagem = c.garagem
    /\ storage = c.storage
    /\ aceitas = c.aceitas
    /\ ultima = Feito("carregarGaragem", Nulo, [corrompido |-> FALSE, antes |-> {}, store |-> Ausente],
                      "void", c.saves, c.alertas)
    /\ agora = 0
    /\ leituras = <<>>
    /\ ctor = SemCtor

FormsCtor == {f \in FormsAdicionar : f.tipo \in {"", "CarroBase"}}

NextConstrutor ==
  \/ \E id \in IdsCtor, m \in ModelosCtor, c \in CoresCtor, a \in AnosCtor, d \in DatasCtor :
        Construir(id, m, c, a, d)
  \/ \E f \in FormsCtor, r \in {"ok", "quota"} : HandleAdicionarVeiculo(f, r)
  \/ Tick

SpecConstrutor == InitConstrutor /\ [][NextConstrutor]_vars

\* C9: the constructor fails, with the required-fields error, exactly when the id or
\* the model is absent (undefined, null or empty) and builds the vehicle otherwise; a
\* failed construction leaves the fleet as it was, and the add form adds nothing when
\* it refuses its fields.
C9_ConstrutorObrigatorios ==
  [][/\ ctor' # ctor =>
          /\ Lancou(ctor'.res) <=> (ctor'.id \in {Nulo, ""} \/ ctor'.modelo \in {Nulo, ""})
          /\ Lancou(ctor'.res) => (ctor'.res = ErroObrigatorios /\ garagem' = garagem)
          /\ ~Lancou(ctor'.res) => (ctor'.res.id = ctor'.id /\ ctor'.res.modelo = Trim(ctor'.modelo))
     /\ (ultima'.op = "handleAdicionarVeiculo" /\ ultima'.saves = <<>>) => garagem' = garagem
    ]_vars

\* The constructor has thrown for an empty model given with an id.
C9_Witness ==
  /\ ctor.feito
  /\ ctor.id = "x1"
  /\ ctor.modelo = ""
  /\ ctor.res = ErroObrigatorios
  /\ "v0" \in DOMAIN garagem

----------------------------------------------------------------------------
(* The edit form of the displayed vehicle and its image reads *)

\* carro.js:260-264: the edit form as atualizarInformacoesUI fills it from the vehicle,
\* with no file chosen.
Preenchido(v) ==
  [modelo |-> v.modelo,
   cor |-> v.cor,
   placa |-> v.placa,
   ano |-> IF v.ano = AnoNulo THEN [txt |-> ""] ELSE [num |-> v.ano],
   cnh |-> IF v.dataVencimentoCNH = DataNula THEN [txt |-> ""]
           ELSE [ymd |-> v.dataVencimentoCNH \div HorasPorDia],
   arquivo |-> NuloJS]

\* garagem.js:553-556: the text of the date input as an instant (UTC midnight) or null.
CnhDoForm(x) == IF "ymd" \in DOMAIN x THEN x.ymd * HorasPorDia ELSE DataNula

\* garagem.js:549-564: the vehicle with the fields of the form f written into it.  The
\* model is kept when the text is empty; the colour, plate, year and date are not.
EditarCampos(v, f) ==
  LET nMod == Trim(f.modelo)
  IN [v EXCEPT !.modelo = IF ~Falsy(nMod) /\ v.modelo # nMod THEN nMod ELSE @,
               !.cor = Trim(f.cor),
               !.placa = ToUpperCase(Trim(f.placa)),
               !.ano = ParseIntOuNull(f.ano),
               !.dataVencimentoCNH = CnhDoForm(f.cnh)]

\* garagem.js:578: a file is chosen and its type starts with "image/".
TemImagem(f) == "img" \in DOMAIN f.arquivo

AlertaSalvas == "Alteracoes salvas!"
AlertaSalvasImg == "Alteracoes (incluindo imagem) salvas!"
AlertaNenhuma == "Nenhuma alteracao detectada."
AlertaErroLeitura == "Erro ao ler o arquivo de imagem."

\* garagem.js:537-637 up to the start of the read: "Salvar Edicoes" pressed on the
\* displayed vehicle id, alt being the fields the user changed in the filled form and r
\* the outcome of the save.  With an image chosen the fields are written and the read
\* is started; its completion is ImagemLida or ImagemErro below.
HandleSalvarEdicaoVeiculo(id, alt, r) ==
  /\ id \in DOMAIN garagem
  /\ \E f \in {Com(Preenchido(garagem[id]), alt)} : \E v1 \in {EditarCampos(garagem[id], f)} :
       IF TemImagem(f)
       THEN /\ Len(leituras) < MaxLeituras
            /\ garagem' = [garagem EXCEPT ![id] = v1]
            /\ leituras' = Append(leituras, [vid |-> id, img |-> f.arquivo.img,
                                             mudou |-> v1 # garagem[id], solto |-> NuloJS])
            /\ ultima' = Feito("handleSalvarEdicaoVeiculo", id, NuloJS, "void", <<>>, <<>>)
            /\ UNCHANGED storage
       ELSE IF v1 # garagem[id]
       THEN \E s \in {salvarGaragem([garagem EXCEPT ![id] = v1], storage, r)} :
              /\ garagem' = s.garagem
              /\ storage' = s.storage
              /\ ultima' = Feito("handleSalvarEdicaoVeiculo", id, NuloJS, "void", <<r>>,
                                 IF s.ret = "true" THEN <<AlertaSalvas>> ELSE s.alertas)
              /\ UNCHANGED leituras
       ELSE /\ ultima' = Feito("handleSalvarEdicaoVeiculo", id, NuloJS, "void", <<>>,
                               <<AlertaNenhuma>>)
            /\ UNCHANGED <<garagem, storage, leituras>>
  /\ UNCHANGED <<agora, aceitas, ctor>>

\* The sequence s without its i-th element.
SemIndice(s, i) == SubSeq(s, 1, i - 1) \o SubSeq(s, i + 1, Len(s))

\* The object a pending read captured (garagem.js:538): the one under its key, or the
\* one it kept when the key was deleted or overwritten.
Capturado(l, g) == IF l.solto = NuloJS THEN g[l.vid] ELSE l.solto

\* garagem.js:585
AplicarImagem(v, novaImagemBase64) == [v EXCEPT !.imagemSrc = novaImagemBase64]

\* The failed save of onload leaving the new image on the object.
ReverterImagem_Nada(v, imagemAntiga) == v

\* The failed save of onload putting the default image on the object.
ReverterImagem_Padrao(v, imagemAntiga) == [v EXCEPT !.imagemSrc = "default_car.png"]

\* garagem.js:599
ReverterImagem(v, imagemAntiga) == [v EXCEPT !.imagemSrc = imagemAntiga]

\* The reads ls after the detached object `de` they share became `para`.  Keys are not
\* reused while a read is pending, so the detached objects of one key are one object.
Sincronizar(ls, vid, de, para) ==
  [i \in DOMAIN ls |->
     IF ls[i].vid = vid /\ ls[i].solto = de /\ de # NuloJS
     THEN [ls[i] EXCEPT !.solto = para] ELSE ls[i]]

\* The callback writing its vehicle back under the key it was opened with.
ComObjeto_PorChave(g, l, v) == Com(g, l.vid :> v)

\* garagem.js:538, 585, 599: the fleet g once the object the read l captured is v.  The
\* callback assigns to the object and never to garagem[veiculoId], so a fleet that no
\* longer holds the object is left as it is.
ComObjeto(g, l, v) == IF l.solto = NuloJS THEN [g EXCEPT ![l.vid] = v] ELSE g

\* garagem.js:580-612, reader.onload of the i-th pending read: the image is applied to
\* the captured object when it differs, the fleet saved (outcome r) and, when the save
\* failed, the image the object had on entry put back.
ImagemLida(i, r) ==
  /\ i \in DOMAIN leituras
  /\ \E l \in {leituras[i]} : \E v \in {Capturado(leituras[i], garagem)} :
       IF v.imagemSrc # l.img
       THEN \E s \in {salvarGaragem(ComObjeto(garagem, l, AplicarImagem(v, l.img)),
                                    storage, r)} :
            \E vf \in {IF s.ret = "true" THEN AplicarImagem(v, l.img)
                       ELSE ReverterImagem(AplicarImagem(v, l.img), v.imagemSrc)} :
              /\ garagem' = ComObjeto(garagem, l, vf)
              /\ storage' = s.storage
              /\ leituras' = SemIndice(Sincronizar(leituras, l.vid, l.solto, vf), i)
              /\ ultima' = Feito("imagemLida", l.vid,
                                 [antes |-> v.imagemSrc, nova |-> l.img,
                                  depois |-> vf.imagemSrc, solto |-> l.solto # NuloJS],
                                 "void", <<r>>,
                                 IF s.ret = "true" THEN <<AlertaSalvasImg>> ELSE s.alertas)
       ELSE IF l.mudou
       THEN \E s \in {salvarGaragem(garagem, storage, r)} :
              /\ storage' = s.storage
              /\ leituras' = SemIndice(leituras, i)
              /\ ultima' = Feito("imagemLida", l.vid,
                                 [antes |-> v.imagemSrc, nova |-> l.img,
                                  depois |-> v.imagemSrc, solto |-> l.solto # NuloJS],
                                 "void", <<r>>, s.alertas)
              /\ UNCHANGED garagem
       ELSE /\ leituras' = SemIndice(leituras, i)
            /\ ultima' = Feito("imagemLida", l.vid,
                               [antes |-> v.imagemSrc, nova |-> l.img,
                                depois |-> v.imagemSrc, solto |-> l.solto # NuloJS],
                               "void", <<>>, <<AlertaNenhuma>>)
            /\ UNCHANGED <<garagem, storage>>
  /\ UNCHANGED <<agora, aceitas, ctor>>

\* reader.onerror saving the fields the edit wrote.
ImagemErro_Salva(i) ==
  /\ i \in DOMAIN leituras
  /\ leituras' = SemIndice(leituras, i)
  /\ storage' = Stringify(garagem)
  /\ ultima' = Feito("imagemErro", leituras[i].vid, NuloJS, "void", <<"ok">>,
                     <<AlertaErroLeitura>>)
  /\ UNCHANGED <<garagem, agora, aceitas, ctor>>

\* garagem.js:613, reader.onerror of the i-th pending read.
ImagemErro(i) ==
  /\ i \in DOMAIN leituras
  /\ leituras' = SemIndice(leituras, i)
  /\ ultima' = Feito("imagemErro", leituras[i].vid, NuloJS, "void", <<>>, <<AlertaErroLeitura>>)
  /\ UNCHANGED <<garagem, storage, agora, aceitas, ctor>>

----------------------------------------------------------------------------
(* SpecEdicao: the fields of the Fusca edited, saved and reloaded *)

\* What the user changes in the filled form before saving: nothing, or one field.
AlteracoesCampos ==
  {<<>>, [cor |-> ""], [cor |-> " Prata "], [modelo |-> " "], [modelo |-> " Gol "],
   [placa |-> " abc1d23 "], [ano |-> [txt |-> "2020abc"]], [cnh |-> [txt |-> ""]],
   [arquivo |-> [doc |-> "notas.txt"]]}

IdsEdicao == {"carro1"}

NextEdicao ==
  \/ \E id \in IdsEdicao, alt \in AlteracoesCampos, r \in Resultados :
        HandleSalvarEdicaoVeiculo(id, alt, r)
  \/ \E r \in Resultados : SalvarGaragem(r)
  \/ CarregarGaragem("ok", "ok", "ok")

SpecEdicao == InitPadrao /\ [][NextEdicao]_vars

\* C3: saving the fleet and loading it back rebuilds every vehicle with the same class,
\* fields and maintenance history, for every fleet reached through construction,
\* actions and edits.
C3_IdaEVolta == RecriarGaragem(Stringify(garagem).blob) = garagem

----------------------------------------------------------------------------
(* SpecImagem: images read for the Fusca while it is edited, driven and deleted *)

\* Edits that choose an image file, alone or with another field changed, and an edit
\* of a field alone.
AlteracoesImagem ==
  {[arquivo |-> [img |-> "data:img1"]], [arquivo |-> [img |-> "data:img2"]],
   [cor |-> " Prata ", arquivo |-> [img |-> "data:img1"]], [cor |-> " Prata "]}

NextImagem ==
  \/ \E id \in IdsEdicao, alt \in AlteracoesImagem, r \in Resultados :
        HandleSalvarEdicaoVeiculo(id, alt, r)
  \/ \E i \in 1..MaxLeituras, r \in Resultados : ImagemLida(i, r)
  \/ \E i \in 1..MaxLeituras : ImagemErro(i)
  \/ \E id \in IdsEdicao : Interagir(id, "ligar")
  \/ \E id \in IdsEdicao, r \in Resultados : HandleExcluirVeiculo(id, r)
  \/ CarregarGaragem("ok", "ok", "ok")

SpecImagem == InitConstrutor /\ [][NextImagem]_vars

\* C5: when a completed read applies a new image and the save that follows fails, the
\* vehicle's image is again the one it had when the read completed, whether the vehicle
\* was edited, driven or deleted while the read was pending.
C5_ImagemRevertida ==
  [][(/\ ultima'.op = "imagemLida"
      /\ ultima'.arg.nova # ultima'.arg.antes
      /\ ultima'.saves \in {<<"quota">>, <<"erro">>})
     => /\ ultima'.arg.depois = ultima'.arg.antes
        /\ ~ultima'.arg.solto =>
              /\ ultima'.arg.antes = garagem[ultima'.id].imagemSrc
              /\ garagem'[ultima'.id].imagemSrc = garagem[ultima'.id].imagemSrc]_vars

\* A second image was read over a first one already saved; its save hit the quota and
\* the vehicle, started in the meantime, shows the first image again.
C5_Witness ==
  /\ ultima.op = "imagemLida"
  /\ ultima.arg.antes = "data:img1"
  /\ ultima.arg.nova = "data:img2"
  /\ ultima.saves = <<"quota">>
  /\ ultima.id \in DOMAIN garagem
  /\ garagem[ultima.id].imagemSrc = "data:img1"
  /\ garagem[ultima.id].ligado


\* C28: each completed image read started by an edit makes at most one attempt to write
\* the store, and a failed read makes none.
C28_UmaEscritaPorLeitura ==
  [][/\ ultima'.op = "imagemLida" =>
          /\ Len(ultima'.saves) <= 1
          /\ ultima'.saves # <<"ok">> => storage' = storage
     /\ ultima'.op = "imagemErro" =>
          /\ ultima'.saves = <<>>
          /\ storage' = storage]_vars

\* A read started by an edit that also changed the colour has failed: the colour is
\* changed in memory and the store was not written.
C28_Witness ==
  /\ ultima.op = "imagemErro"
  /\ "carro1" \in DOMAIN garagem
  /\ garagem["carro1"].cor = "Prata"
  /\ "blob" \in DOMAIN storage
  /\ "carro1" \in DOMAIN storage.blob
  /\ storage.blob["carro1"].cor = "Azul"

----------------------------------------------------------------------------
(* SpecArmazenado: stored texts that parse but were not written by salvarGaragem *)

\* Entries a stored text may hold under their keys: two written by toJSON, and entries
\* without a model, without a type, null, of an unknown type with no other field, with
\* a history that is not an array, with history records that are null or lack a type,
\* and one whose id is not the key it is stored under.
EntradasArmazenadas ==
  [carro1 |-> toJSON(FrotaPadrao["carro1"]),
   cam1 |-> toJSON(FrotaPadrao["cam1"]),
   carro2 |-> toJSON([FrotaPadrao["carro2"] EXCEPT !.ligado = TRUE, !.velocidade = 30,
                                                   !.turboAtivado = TRUE]),
   semModelo |-> [id |-> "semModelo", tipoVeiculo |-> "CarroBase"],
   semTipo |-> [id |-> "semTipo", modelo |-> "Gol"],
   nulo |-> NuloJS,
   moto |-> [id |-> "moto", modelo |-> " Gol ", tipoVeiculo |-> "Moto"],
   trocado |-> [id |-> "carro1", modelo |-> "Gol", tipoVeiculo |-> "CarroBase"],
   quebrado |-> [id |-> "quebrado", modelo |-> "Gol", tipoVeiculo |-> "CarroBase",
                 historicoManutencao |-> NaoArray],
   manutRuim |-> [id |-> "manutRuim", modelo |-> "Gol", tipoVeiculo |-> "CarroEsportivo",
                  turboAtivado |-> TRUE,
                  historicoManutencao |-> <<NuloJS, [data |-> [iso |-> 20500 * HorasPorDia]],
                                            [data |-> [iso |-> 20500 * HorasPorDia],
                                             tipo |-> " ", custo |-> 0, descricao |-> ""],
                                            manutencaoToJSON(ManutPadraoCarro1)>>]]

\* The stored text is overwritten from outside the page with the JSON of the entries
\* under the keys ks.
Adulterar(ks) ==
  /\ storage' = [blob |-> [k \in ks |-> EntradasArmazenadas[k]]]
  /\ storage' # storage
  /\ ultima' = Feito("adulterar", Nulo, NuloJS, "void", <<>>, <<>>)
  /\ UNCHANGED <<garagem, agora, leituras, aceitas, ctor>>

\* The stored texts tried: none, one or two of the entries.
ChavesArmazenadas == {ks \in SUBSET DOMAIN EntradasArmazenadas : Cardinality(ks) <= 2}

NextArmazenado ==
  \/ \E ks \in ChavesArmazenadas : Adulterar(ks)
  \/ \E r1 \in Resultados, r2 \in Resultados, r3 \in Resultados : CarregarGaragem(r1, r2, r3)

SpecArmazenado == InitConstrutor /\ [][NextArmazenado]_vars

\* An entry the load is to rebuild: it has id, model and type, and rebuilding it does
\* not throw (its history is an array and its constructor returns).
Reconstruivel(d) ==
  /\ ~EntradaInvalida(d)
  /\ ~HistoricoNaoArray(d)
  /\ ~Lancou(RecriarVeiculo(d))

\* C11: a load of a text that parses skips every entry without id, model or type and
\* every entry whose reconstruction fails, and rebuilds every other entry under its
\* key: a bad entry never keeps the others out of the fleet.
C11_EntradasRuinsPuladas ==
  (ultima.op = "carregarGaragem" /\ "blob" \in DOMAIN ultima.arg.store)
    => /\ DOMAIN garagem = {k \in DOMAIN ultima.arg.store.blob :
                              Reconstruivel(ultima.arg.store.blob[k])}
       /\ \A k \in DOMAIN garagem : garagem[k] = RecriarVeiculo(ultima.arg.store.blob[k])


\* A serialized maintenance record whose date parses and whose type is not empty.
ArmazenadaValida(m) ==
  /\ m # NuloJS
  /\ "iso" \in DOMAIN Campo(m, "data", NuloJS)
  /\ Trim(Campo(m, "tipo", "")) # ""

\* The valid records of a serialized history, in their order.
RECURSIVE ArmazenadasValidas(_)
ArmazenadasValidas(js) ==
  IF js = <<>> THEN <<>>
  ELSE (IF ArmazenadaValida(Head(js)) THEN <<Head(js)>> ELSE <<>>)
       \o ArmazenadasValidas(Tail(js))

\* The last operation was a load that rebuilt the fleet from the stored text.
CarregouDoArmazenado ==
  /\ ultima.op = "carregarGaragem"
  /\ "blob" \in DOMAIN ultima.arg.store
  /\ ultima.saves = <<>>

\* C23: a load rebuilds each accepted entry as the class its type tag names, as a
\* CarroBase when the tag is none of the known ones, with the stored speed, running
\* flag and (valid) maintenance records.
C23_RecriadoComoArmazenado ==
  CarregouDoArmazenado =>
    \A k \in DOMAIN garagem :
      /\ k \in DOMAIN ultima.arg.store.blob
      /\ LET d == ultima.arg.store.blob[k]
             v == garagem[k]
         IN /\ v.classe = IF d.tipoVeiculo \in {"CarroEsportivo", "Caminhao"}
                          THEN d.tipoVeiculo ELSE "CarroBase"
            /\ v.velocidade = Campo(d, "velocidade", 0)
            /\ v.ligado = Campo(d, "ligado", FALSE)
            /\ HistoricoJSON(v.historicoManutencao) =
                 ArmazenadasValidas(Campo(d, "historicoManutencao", <<>>))

\* A load rebuilt an entry of unknown type as a CarroBase next to the Maverick, stored
\* running at 30.
C23_Witness ==
  /\ CarregouDoArmazenado
  /\ DOMAIN garagem = {"moto", "carro2"}
  /\ garagem["moto"].classe = "CarroBase"
  /\ garagem["carro2"].classe = "CarroEsportivo"
  /\ garagem["carro2"].ligado
  /\ garagem["carro2"].velocidade = 30

----------------------------------------------------------------------------
(* The alerts computed from the fleet and the clock *)

\* Hours the browser's local time is behind UTC: UTC+2, UTC and UTC-3.
Fusos == {-2, 0, FusoHoras}

\* The local calendar day (days since the epoch) of the instant t.
Hoje(t, fuso) == (t - fuso) \div HorasPorDia

\* garagem.js:797: new Date() with setHours(0, 0, 0, 0), local midnight as an instant.
MeiaNoiteLocal(t, fuso) == Hoje(t, fuso) * HorasPorDia + fuso

\* garagem.js:803: Math.ceil of a span of h hours in days.
TetoDias(h) == -((-h) \div HorasPorDia)

\* s.includes("VENCIDA") for the model and plate texts of the model.
ContemVENCIDA(s) == s \in {"VENCIDA", " VENCIDA "}

\* The rank of the texts of the model under localeCompare.
Ordem(s) ==
  CASE s = "" -> 0
    [] s = "ABC1234" -> 1
    [] s = "ABC1D23" -> 2
    [] s = "DEF5678" -> 3
    [] s = "Fusca" -> 4
    [] s = "GHI9012" -> 5
    [] s = "Gol" -> 6
    [] s = "Maverick" -> 7
    [] s = "S/P" -> 8
    [] s = "Scania 113" -> 9
    [] s = "VENCIDA" -> 10
    [] OTHER -> 11

\* garagem.js:805-809: the alert of the vehicle v, dias days from its expiry.  The text
\* shown is made of the model, the plate (or S/P), the class and the date; id tells
\* which vehicle the alert is about and is no part of the text.
AlertaCNH(id, v, dias) ==
  [id |-> id,
   modelo |-> v.modelo,
   placa |-> IF Falsy(v.placa) THEN "S/P" ELSE v.placa,
   vencida |-> dias < 0,
   dias |-> IF dias < 0 THEN 0 ELSE dias,
   data |-> v.dataVencimentoCNH \div HorasPorDia]

\* a.includes("VENCIDA") on the text of the alert a (garagem.js:813).
IncluiVENCIDA(a) == a.vencida \/ ContemVENCIDA(a.modelo) \/ ContemVENCIDA(a.placa)

\* a.localeCompare(b) < 0 on the texts of two alerts: the model, then the plate, then
\* the class ("vence em" before "VENCIDA").
TextoAntes(a, b) ==
  \/ Ordem(a.modelo) < Ordem(b.modelo)
  \/ a.modelo = b.modelo /\ Ordem(a.placa) < Ordem(b.placa)
  \/ a.modelo = b.modelo /\ a.placa = b.placa /\ ~a.vencida /\ b.vencida

\* garagem.js:813: the comparator places a before b.
AntesCNH(a, b) ==
  LET ka == IF IncluiVENCIDA(a) THEN -1 ELSE 1
      kb == IF IncluiVENCIDA(b) THEN -1 ELSE 1
  IN ka < kb \/ (ka = kb /\ TextoAntes(a, b))

\* alr.sort(...) on the alerts collected.
RECURSIVE OrdenarCNH(_)
OrdenarCNH(S) ==
  IF S = {} THEN <<>>
  ELSE LET m == CHOOSE a \in S : \A b \in S : ~AntesCNH(b, a)
       IN <<m>> \o OrdenarCNH(S \ {m})

\* garagem.js:800-811: the days left for the vehicle v at the instant t.
DiasCNH(v, t, fuso) == TetoDias(v.dataVencimentoCNH - MeiaNoiteLocal(t, fuso))

\* garagem.js:795-821: the alerts listed for the fleet g at the instant t.
verificarVencimentoCNH(g, t, fuso) ==
  OrdenarCNH({AlertaCNH(id, g[id], DiasCNH(g[id], t, fuso)) :
                id \in {k \in DOMAIN g : /\ g[k].dataVencimentoCNH \notin {DataNula, DataInvalida}
                                         /\ DiasCNH(g[k], t, fuso) <= 30}})

\* verificarVencimentoCNH() run in a browser whose time zone is fuso.
VerificarVencimentoCNH(fuso) ==
  /\ ultima' = Feito("verificarVencimentoCNH", Nulo, [fuso |-> fuso],
                     verificarVencimentoCNH(garagem, agora, fuso), <<>>, <<>>)
  /\ UNCHANGED <<garagem, storage, agora, leituras, aceitas, ctor>>

----------------------------------------------------------------------------
(* SpecCNH: the licence alerts of the default fleet around the Fusca's expiry *)

\* Clock readings 31 days before, 30 days before, on and after the day the Fusca's
\* licence expires, early, at noon and late in the UTC day.
InstantesCNH ==
  {d * HorasPorDia + h : d \in {Dia20241231 - 31, Dia20241231 - 30, Dia20241231, Dia20241231 + 1},
                         h \in {1, 12, 23}}

\* The default fleet, saved, at one of the clock readings.
InitCNH ==
  /\ garagem = FrotaPadrao
  /\ storage = Stringify(FrotaPadrao)
  /\ agora \in InstantesCNH
  /\ leituras = <<>>
  /\ aceitas = [id \in IdsPadrao |-> SeqParaBag(FrotaPadrao[id].historicoManutencao)]
  /\ ultima = Inicio
  /\ ctor = SemCtor

\* Edits of the Fusca's plate and licence date.
AlteracoesCNH ==
  {[placa |-> " vencida "], [placa |-> " abc1d23 "], [cnh |-> [txt |-> ""]],
   [cnh |-> [ymd |-> Dia20241231]]}

NextCNH ==
  \/ \E fuso \in Fusos : VerificarVencimentoCNH(fuso)
  \/ \E id \in IdsEdicao, alt \in AlteracoesCNH : HandleSalvarEdicaoVeiculo(id, alt, "ok")

SpecCNH == InitCNH /\ [][NextCNH]_vars

\* C12: the licence alerts report a vehicle whose licence expired yesterday as expired,
\* one whose licence expires in 30 days as expiring soon and nothing for one whose
\* licence expires in 31 days, with at most one alert for each vehicle.
C12_AlertasCNH ==
  ultima.op = "verificarVencimentoCNH" =>
    \A id \in DOMAIN garagem :
      LET d == garagem[id].dataVencimentoCNH \div HorasPorDia
          h == Hoje(agora, ultima.arg.fuso)
          A == {i \in DOMAIN ultima.ret : ultima.ret[i].id = id}
      IN garagem[id].dataVencimentoCNH # DataNula =>
           /\ Cardinality(A) <= 1
           /\ d = h - 1 => \E i \in A : ultima.ret[i].vencida
           /\ d = h + 30 => \E i \in A : ~ultima.ret[i].vencida
           /\ d = h + 31 => A = {}

\* C20: in the list of licence alerts every alert of an expired licence comes before
\* every alert of a licence expiring soon, whatever the models and plates read.
C20_VencidasPrimeiro ==
  ultima.op = "verificarVencimentoCNH" =>
    \A i \in DOMAIN ultima.ret : \A j \in DOMAIN ultima.ret :
      (i < j) => ~(~ultima.ret[i].vencida /\ ultima.ret[j].vencida)

----------------------------------------------------------------------------
(* SpecCaminhao: the default truck loaded, saved and reloaded *)

\* Caminhao.carregar accepting any amount.
carregar_SemValidar(v, peso) ==
  IF "num" \in DOMAIN peso
  THEN [ret |-> TRUE, v |-> [v EXCEPT !.cargaAtual = v.cargaAtual + peso.num]]
  ELSE [ret |-> FALSE, v |-> v]

\* Caminhao.carregar(peso), defined in neither file: the amount must be a positive
\* number and fit in the capacity left; then it is added to cargaAtual.  Otherwise the
\* truck is left as it is and the failure reported.
carregar(v, peso) ==
  IF "num" \in DOMAIN peso /\ peso.num > 0 /\ v.cargaAtual + peso.num <= v.capacidadeCarga
  THEN [ret |-> TRUE, v |-> [v EXCEPT !.cargaAtual = v.cargaAtual + peso.num]]
  ELSE [ret |-> FALSE, v |-> v]

AlertaSoCaminhao == "Acao 'Carregar' apenas para Caminhoes."
AlertaCarga == "Carga invalida ou acima da capacidade."

\* garagem.js:380-398, 429-432: the load button of the displayed vehicle pressed with
\* the text valor in its input; only a Caminhao is loaded.
InteragirCarregar(id, valor) ==
  /\ id \in DOMAIN garagem
  /\ IF garagem[id].classe = "Caminhao"
     THEN \E c \in {carregar(garagem[id], valor)} :
            /\ garagem' = [garagem EXCEPT ![id] = c.v]
            /\ ultima' = Feito("carregar", id, valor, IF c.ret THEN "true" ELSE "false", <<>>,
                               IF c.ret THEN <<>> ELSE <<AlertaCarga>>)
     ELSE /\ ultima' = Feito("carregar", id, valor, "void", <<>>, <<AlertaSoCaminhao>>)
          /\ UNCHANGED garagem
  /\ UNCHANGED <<storage, agora, leituras, aceitas, ctor>>

\* The texts of the load input: empty, not a number, and numbers.
Pesos ==
  {[txt |-> ""], [txt |-> "abc"], [num |-> -5000], [num |-> 0], [num |-> 5000],
   [num |-> 10000], [num |-> 15000]}

IdsCarga == {"cam1", "carro1"}

NextCaminhao ==
  \/ \E id \in IdsCarga, valor \in Pesos : InteragirCarregar(id, valor)
  \/ \E r \in Resultados : SalvarGaragem(r)
  \/ CarregarGaragem("ok", "ok", "ok")

SpecCaminhao == InitConstrutor /\ [][NextCaminhao]_vars

\* C13: carregar with an amount that is not a positive number, or that does not fit in
\* the capacity left, reports failure and leaves the truck, cargaAtual included, as it was.
C13_CargaRecusada ==
  [][(/\ ultima'.op = "carregar"
      /\ ultima'.id \in DOMAIN garagem
      /\ garagem[ultima'.id].classe = "Caminhao"
      /\ \/ "num" \notin DOMAIN ultima'.arg
         \/ ultima'.arg.num <= 0
         \/ garagem[ultima'.id].cargaAtual + ultima'.arg.num
              > garagem[ultima'.id].capacidadeCarga)
     => (ultima'.ret = "false" /\ garagem' = garagem)]_vars

\* With 15000 of 20000 on board, a load of 10000 has been refused.
C13_Witness ==
  /\ ultima.op = "carregar"
  /\ ultima.arg = [num |-> 10000]
  /\ ultima.ret = "false"
  /\ garagem["cam1"].cargaAtual = 15000
  /\ garagem["cam1"].capacidadeCarga = 20000

\* C14: the load of every truck stays within [0, capacidadeCarga] through loads, saves
\* and reloads.
C14_CargaNoIntervalo ==
  \A id \in DOMAIN garagem :
    garagem[id].classe = "Caminhao" =>
      (garagem[id].cargaAtual >= 0 /\ garagem[id].cargaAtual <= garagem[id].capacidadeCarga)

\* The truck, loaded to its capacity and saved, has been reloaded full.
C14_Witness ==
  /\ ultima.op = "carregarGaragem"
  /\ garagem["cam1"].cargaAtual = garagem["cam1"].capacidadeCarga
  /\ garagem["cam1"].cargaAtual = 20000

----------------------------------------------------------------------------
(* Scheduled maintenance: the list of future records and the alerts for today
   and tomorrow *)

\* Object.values(garagem): the keys in insertion order (garagem.js:132-134, kept by
\* JSON.stringify and by the loop of carregarGaragem).
ChavesEmOrdem == <<"carro1", "carro2", "cam1">>

\* garagem.js:743: m?.data instanceof Date && !isNaN(m.data.getTime()) && m.data > agora
Futura(m, t) == m.data \notin {DataNula, DataInvalida} /\ m.data > t

\* garagem.js:742-744 for one vehicle: its future records, each with the model.
RECURSIVE FuturasDe(_, _, _)
FuturasDe(h, modelo, t) ==
  IF h = <<>> THEN <<>>
  ELSE (IF Futura(Head(h), t) THEN <<[m |-> Head(h), v |-> modelo]>> ELSE <<>>)
       \o FuturasDe(Tail(h), modelo, t)

\* garagem.js:741-745: the forEach over the vehicles, ks the keys still to visit.
RECURSIVE ColetarFuturas(_, _, _)
ColetarFuturas(ks, g, t) ==
  IF ks = <<>> THEN <<>>
  ELSE (IF Head(ks) \in DOMAIN g
        THEN FuturasDe(g[Head(ks)].historicoManutencao, g[Head(ks)].modelo, t)
        ELSE <<>>)
       \o ColetarFuturas(Tail(ks), g, t)

\* Inserts x before the first element whose date is later than its own.
RECURSIVE InserirAsc(_, _)
InserirAsc(s, x) ==
  IF s = <<>> THEN <<x>>
  ELSE IF Head(s).m.data <= x.m.data THEN <<Head(s)>> \o InserirAsc(Tail(s), x)
  ELSE <<x>> \o s

\* garagem.js:747: tds.sort((a, b) => a.m.data.getTime() - b.m.data.getTime()), stable.
RECURSIVE OrdenarAsc(_)
OrdenarAsc(s) ==
  IF s = <<>> THEN <<>>
  ELSE InserirAsc(OrdenarAsc(SubSeq(s, 1, Len(s) - 1)), s[Len(s)])

\* The list shown as collected, without the sort.
atualizarExibicaoAgendamentosFuturos_SemOrdenar(g, t) == ColetarFuturas(ChavesEmOrdem, g, t)

\* garagem.js:736-755: the list shown, the fleet being g and the clock t.
atualizarExibicaoAgendamentosFuturos(g, t) == OrdenarAsc(ColetarFuturas(ChavesEmOrdem, g, t))

AtualizarExibicaoAgendamentosFuturos ==
  /\ ultima' = Feito("atualizarExibicaoAgendamentosFuturos", Nulo, NuloJS,
                     atualizarExibicaoAgendamentosFuturos(garagem, agora), <<>>, <<>>)
  /\ UNCHANGED <<garagem, storage, agora, leituras, aceitas, ctor>>

\* garagem.js:764-766: the last instant of tomorrow in the time zone fuso.  The
\* instants of the model are whole hours, so 23:59:59.999 admits the records that
\* 23:00 admits.
FimDeAmanha(t, fuso) == MeiaNoiteLocal(t, fuso) + 2 * HorasPorDia - 1

\* garagem.js:771: ... && m.data > agora && m.data <= fimDeAmanha
Proxima(m, t, fuso) ==
  /\ m.data \notin {DataNula, DataInvalida}
  /\ m.data > t
  /\ m.data <= FimDeAmanha(t, fuso)

\* garagem.js:773-776: the notification of the record m of the vehicle id.  Its text
\* is the prefix (HOJE or Amanha), the model, the type and the local hour; id and m
\* tell which record the notification is about and are no part of the text.
Notificacao(id, v, m, t, fuso) ==
  [id |-> id,
   m |-> m,
   hoje |-> Hoje(m.data, fuso) = Hoje(t, fuso),
   modelo |-> v.modelo,
   tipo |-> m.tipo,
   hora |-> (m.data - fuso) % HorasPorDia]

\* garagem.js:769-777 for one vehicle.
RECURSIVE ProximasDe(_, _, _, _, _)
ProximasDe(h, id, v, t, fuso) ==
  IF h = <<>> THEN <<>>
  ELSE (IF Proxima(Head(h), t, fuso) THEN <<Notificacao(id, v, Head(h), t, fuso)>> ELSE <<>>)
       \o ProximasDe(Tail(h), id, v, t, fuso)

\* garagem.js:769-778: the forEach over the vehicles, ks the keys still to visit.
RECURSIVE ColetarProximas(_, _, _, _)
ColetarProximas(ks, g, t, fuso) ==
  IF ks = <<>> THEN <<>>
  ELSE (IF Head(ks) \in DOMAIN g
        THEN ProximasDe(g[Head(ks)].historicoManutencao, Head(ks), g[Head(ks)], t, fuso)
        ELSE <<>>)
       \o ColetarProximas(Tail(ks), g, t, fuso)

\* s.includes("HOJE") for the model and type texts of the model.
ContemHOJE(s) == s = "HOJE"

\* a.includes("HOJE") on the text of the notification a (garagem.js:780).
IncluiHOJE(a) == a.hoje \/ ContemHOJE(a.modelo) \/ ContemHOJE(a.tipo)

\* The rank of the type texts of the model under localeCompare.
OrdemTipo(s) ==
  CASE s = "" -> 0
    [] s = "Freio" -> 1
    [] s = "HOJE" -> 2
    [] s = "Oleo" -> 3
    [] s = "Revisao Motor" -> 4
    [] s = "Troca Pneu" -> 5
    [] OTHER -> 6

\* The orders in which an engine's collation may place the two prefix symbols.
Colacoes == {"hoje-antes", "amanha-antes"}

\* a.localeCompare(b) < 0 on the texts of two notifications: the prefix, then the
\* model, then the type, then the hour.
NotificacaoAntes(a, b, colacao) ==
  \/ a.hoje # b.hoje /\ (a.hoje <=> colacao = "hoje-antes")
  \/ a.hoje = b.hoje /\ Ordem(a.modelo) < Ordem(b.modelo)
  \/ a.hoje = b.hoje /\ a.modelo = b.modelo /\ OrdemTipo(a.tipo) < OrdemTipo(b.tipo)
  \/ a.hoje = b.hoje /\ a.modelo = b.modelo /\ a.tipo = b.tipo /\ a.hora < b.hora

\* garagem.js:780: the comparator places a before b.
AntesProxima(a, b, colacao) ==
  LET ka == IF IncluiHOJE(a) THEN -1 ELSE 1
      kb == IF IncluiHOJE(b) THEN -1 ELSE 1
  IN ka < kb \/ (ka = kb /\ NotificacaoAntes(a, b, colacao))

\* Inserts x before the first element the comparator places after it.
RECURSIVE InserirProxima(_, _, _)
InserirProxima(s, x, colacao) ==
  IF s = <<>> THEN <<x>>
  ELSE IF AntesProxima(x, Head(s), colacao) THEN <<x>> \o s
  ELSE <<Head(s)>> \o InserirProxima(Tail(s), x, colacao)

\* garagem.js:780: ntf.sort(...), stable.
RECURSIVE OrdenarProximas(_, _)
OrdenarProximas(s, colacao) ==
  IF s = <<>> THEN <<>>
  ELSE InserirProxima(OrdenarProximas(SubSeq(s, 1, Len(s) - 1), colacao), s[Len(s)], colacao)

\* garagem.js:761-788: the notifications listed for the fleet g at the instant t.
verificarAgendamentosProximos(g, t, fuso, colacao) ==
  OrdenarProximas(ColetarProximas(ChavesEmOrdem, g, t, fuso), colacao)

\* verificarAgendamentosProximos() run in a browser whose time zone is fuso.
VerificarAgendamentosProximos(fuso, colacao) ==
  /\ ultima' = Feito("verificarAgendamentosProximos", Nulo, [fuso |-> fuso],
                     verificarAgendamentosProximos(garagem, agora, fuso, colacao), <<>>, <<>>)
  /\ UNCHANGED <<garagem, storage, agora, leituras, aceitas, ctor>>

----------------------------------------------------------------------------
(* SpecAgenda: maintenance scheduled on the Fusca and the Scania around the clock *)

\* 2026-02-16, the day the schedulings are made around.
Dia20260216 == 20500

\* Clock readings: the day before, early on the day, at the instant of the 10:00
\* scheduling of the day, and late on the day after.
InstantesAgenda ==
  {(Dia20260216 - 1) * HorasPorDia + 1,
   Dia20260216 * HorasPorDia + 5,
   Dia20260216 * HorasPorDia + 10 + FusoHoras,
   (Dia20260216 + 1) * HorasPorDia + 23}

InitAgenda ==
  /\ garagem = FrotaPadrao
  /\ storage = Stringify(FrotaPadrao)
  /\ agora \in InstantesAgenda
  /\ leituras = <<>>
  /\ aceitas = [id \in IdsPadrao |-> SeqParaBag(FrotaPadrao[id].historicoManutencao)]
  /\ ultima = Inicio
  /\ ctor = SemCtor

IdsAgenda == {"carro1", "cam1"}

\* The schedulings submitted: the date, the time (empty for 00:00) and the type.
FormsAgenda ==
  {[d |-> [ymd |-> Dia20260216], h |-> [hm |-> 10], t |-> "Oleo"],
   [d |-> [ymd |-> Dia20260216], h |-> [txt |-> ""], t |-> "HOJE"],
   [d |-> [ymd |-> Dia20260216 + 1], h |-> [txt |-> ""], t |-> "Oleo"],
   [d |-> [ymd |-> Dia20260216 + 1], h |-> [hm |-> 10], t |-> "HOJE"]}

NextAgenda ==
  \/ \E id \in IdsAgenda, f \in FormsAgenda : HandleAgendarManutencao(id, f.d, f.h, f.t, "ok")
  \/ AtualizarExibicaoAgendamentosFuturos
  \/ \E fuso \in Fusos, colacao \in Colacoes : VerificarAgendamentosProximos(fuso, colacao)

SpecAgenda == InitAgenda /\ [][NextAgenda]_vars

\* The number of positions of the sequence s that hold x.
Vezes(s, x) == Cardinality({i \in DOMAIN s : s[i] = x})

\* The positions <<id, i>> of the maintenance records of the fleet g.
Registros(g) ==
  UNION {{<<id, i>> : i \in DOMAIN g[id].historicoManutencao} : id \in DOMAIN g}

\* C18: the list of upcoming maintenance holds exactly the records, over all vehicles of
\* the fleet, whose date is strictly after now, each paired with the model of its
\* vehicle, in ascending order of date.
C18_AgendamentosFuturos ==
  ultima.op = "atualizarExibicaoAgendamentosFuturos" =>
    LET tds == ultima.ret
        Par(r) == [m |-> garagem[r[1]].historicoManutencao[r[2]], v |-> garagem[r[1]].modelo]
    IN /\ \A i \in DOMAIN tds : \E r \in Registros(garagem) : tds[i] = Par(r)
       /\ \A r \in Registros(garagem) :
            Vezes(tds, Par(r)) =
              IF Par(r).m.data > agora
              THEN Cardinality({q \in Registros(garagem) : Par(q) = Par(r)})
              ELSE 0
       /\ \A i \in DOMAIN tds : \A j \in DOMAIN tds : i < j => tds[i].m.data <= tds[j].m.data

\* The list holds three or more records, of both vehicles and of different dates, while
\* some record of the fleet is not after now and is left out.
C18_Witness ==
  /\ ultima.op = "atualizarExibicaoAgendamentosFuturos"
  /\ Len(ultima.ret) >= 3
  /\ \E i \in DOMAIN ultima.ret : \E j \in DOMAIN ultima.ret :
       /\ ultima.ret[i].v # ultima.ret[j].v
       /\ ultima.ret[i].m.data < ultima.ret[j].m.data
  /\ \E id \in DOMAIN garagem :
       \E k \in DOMAIN garagem[id].historicoManutencao :
         garagem[id].historicoManutencao[k].data <= agora

\* C19: the alerts of maintenance due soon are one for exactly each record whose date
\* lies in the closed range from now to the end of tomorrow, each classed as today or
\* tomorrow by the calendar day of its date, every alert of today before every alert of
\* tomorrow.
C19_AlertasProximos ==
  ultima.op = "verificarAgendamentosProximos" =>
    LET ntf == ultima.ret
        fuso == ultima.arg.fuso
        Reg(r) == [id |-> r[1], m |-> garagem[r[1]].historicoManutencao[r[2]]]
        De(a) == [id |-> a.id, m |-> a.m]
        NoIntervalo(m) == m.data >= agora /\ m.data <= FimDeAmanha(agora, fuso)
    IN /\ \A i \in DOMAIN ntf : \E r \in Registros(garagem) : De(ntf[i]) = Reg(r)
       /\ \A r \in Registros(garagem) :
            Cardinality({i \in DOMAIN ntf : De(ntf[i]) = Reg(r)}) =
              IF NoIntervalo(Reg(r).m)
              THEN Cardinality({q \in Registros(garagem) : Reg(q) = Reg(r)})
              ELSE 0
       /\ \A i \in DOMAIN ntf :
            IF ntf[i].hoje THEN Hoje(ntf[i].m.data, fuso) = Hoje(agora, fuso)
            ELSE Hoje(ntf[i].m.data, fuso) = Hoje(agora, fuso) + 1
       /\ \A i \in DOMAIN ntf : \A j \in DOMAIN ntf :
            (ntf[i].hoje /\ ~ntf[j].hoje) => i < j

----------------------------------------------------------------------------
(* SpecFrota: the default fleet added to, deleted from, edited, serviced and driven,
   with saves that succeed and fail *)

\* The default fleet, saved, with the clock at 0.
InitFrota ==
  /\ garagem = FrotaPadrao
  /\ storage = Stringify(FrotaPadrao)
  /\ agora = 0
  /\ leituras = <<>>
  /\ aceitas = [id \in IdsPadrao |-> SeqParaBag(FrotaPadrao[id].historicoManutencao)]
  /\ ultima = Inicio
  /\ ctor = SemCtor

\* The outcomes of the saves: done, or refused for lack of space.
ResultadosFrota == {"ok", "quota"}

\* The add form submitted.
FormsFrota ==
  {[modelo |-> " Gol ", cor |-> "", placa |-> " abc1d23 ", ano |-> [txt |-> "2020abc"],
    tipo |-> "CarroBase", capacidade |-> [txt |-> "2020"], cnh |-> [txt |-> ""]]}

\* The vehicles deleted, and the field changed in the edit form.
ParaExcluirFrota == {"cam1", IdNovo(0)}
AlteracoesFrota == {[cor |-> " Prata "]}

\* The records handed to adicionarManutencao: a valid one and one with no type.
ManutsFrota == {Manutencao([ymd |-> Dia20231115], "Oleo", 0, Nulo),
                Manutencao([ymd |-> Dia20231115], " ", 0, Nulo)}

NextFrota ==
  \/ \E f \in FormsFrota, r \in ResultadosFrota : HandleAdicionarVeiculo(f, r)
  \/ \E id \in ParaExcluirFrota, r \in ResultadosFrota : HandleExcluirVeiculo(id, r)
  \/ \E alt \in AlteracoesFrota, r \in ResultadosFrota :
        HandleSalvarEdicaoVeiculo("carro1", alt, r)
  \/ \E m \in ManutsFrota, r \in ResultadosFrota : AdicionarManutencao("cam1", m, r)
  \/ \E r \in ResultadosFrota : HandleLimparHistorico("carro1", r)
  \/ Interagir("carro2", "ligar")
  \/ Tick

SpecFrota == InitFrota /\ [][NextFrota]_vars

\* The step taken is one of the operations ops (and not the passing of time, which
\* leaves the record of the last operation as it was).
Operou(ops) == ultima'.op \in ops /\ agora' = agora

\* C21: the id of a vehicle is unique in the fleet and never changes: every vehicle
\* stays under its id with that id through actions, edits, maintenance and saves, and
\* an add never gives the new vehicle an id that a vehicle of the fleet already holds.
C21_IdUnicoEFixo ==
  [][/\ \A k \in DOMAIN garagem' : garagem'[k].id = k
     /\ (Operou({"handleAdicionarVeiculo"}) /\ ultima'.id \in DOMAIN garagem')
          => ultima'.id \notin DOMAIN garagem]_vars

\* C26: clearing the history leaves the history of the vehicle empty in every case,
\* also when the save it makes fails, and changes no other field of the vehicle and no
\* other vehicle.
C26_HistoricoLimpo ==
  [][Operou({"limparHistorico"})
     => garagem' = [garagem EXCEPT ![ultima'.id].historicoManutencao = <<>>]]_vars

\* The history of the Fusca was cleared and the save hit the quota: the store still
\* holds its record, and the Scania, serviced before, keeps its two records.
C26_Witness ==
  /\ ultima.op = "limparHistorico"
  /\ ultima.saves = <<"quota">>
  /\ garagem["carro1"].historicoManutencao = <<>>
  /\ "carro1" \in DOMAIN storage.blob
  /\ Len(storage.blob["carro1"].historicoManutencao) = 1
  /\ "cam1" \in DOMAIN garagem
  /\ Len(garagem["cam1"].historicoManutencao) = 2

\* The ids of the vehicles held by the stored text st.
IdsArmazenados(st) == IF "blob" \in DOMAIN st THEN DOMAIN st.blob ELSE {}

\* The operations that end by saving the fleet.
OpsQueSalvam ==
  {"handleAdicionarVeiculo", "handleExcluirVeiculo", "handleSalvarEdicaoVeiculo",
   "adicionarManutencao", "limparHistorico"}

\* C29: after every completed add, delete, edit, addMaintenance or clearHistory, whether
\* its save succeeded or failed, the ids of the fleet in memory are the ids of the
\* stored fleet, provided they were before the operation.
C29_IdsIguaisAosArmazenados ==
  [][(/\ Operou(OpsQueSalvam)
      /\ DOMAIN garagem = IdsArmazenados(storage))
     => DOMAIN garagem' = IdsArmazenados(storage')]_vars

\* C30: when the save of an add fails, the fleet in memory after the add is the fleet
\* before it, same keys and same vehicles, also when the id made from the clock is the
\* id of a vehicle already in the fleet.
C30_AdicaoFalhaNadaMuda ==
  [][(/\ Operou({"handleAdicionarVeiculo"})
      /\ ultima'.saves \in {<<"quota">>, <<"erro">>})
     => garagem' = garagem]_vars

----------------------------------------------------------------------------
(* SpecHistorico: records offered to a history, the fleet saved, the stored text
   replaced by one with bad records, and loaded *)

\* The stored texts put in place of the saved one.
ChavesHistorico == {{"manutRuim"}, {"manutRuim", "carro1"}}

\* The records handed to adicionarManutencao: a valid one, one whose date does not
\* parse and one with a blank type.
ManutsHistorico ==
  {Manutencao([ymd |-> Dia20231115], "Oleo", 0, Nulo),
   Manutencao([txt |-> "amanha"], "Oleo", 0, Nulo),
   Manutencao([ymd |-> Dia20231115], " ", 0, Nulo)}

NextHistorico ==
  \/ \E id \in {"carro1", "manutRuim"}, m \in ManutsHistorico, r \in Resultados :
        AdicionarManutencao(id, m, r)
  \/ \E r \in Resultados : SalvarGaragem(r)
  \/ \E ks \in ChavesHistorico : Adulterar(ks)
  \/ CarregarGaragem("ok", "ok", "ok")

SpecHistorico == InitConstrutor /\ [][NextHistorico]_vars

\* The last operation wrote the stored text: its last save returned.
Gravou ==
  /\ Len(ultima.saves) > 0
  /\ ultima.saves[Len(ultima.saves)] = "ok"

\* C24: invalid maintenance records are never persisted: every record of every vehicle
\* in a text written by a save has a date that parses and a type that is not empty, and
\* after a load every record of every history in memory is valid.
C24_SoManutencoesValidas ==
  /\ Gravou =>
       /\ "blob" \in DOMAIN storage
       /\ \A k \in DOMAIN storage.blob :
            \A i \in DOMAIN storage.blob[k].historicoManutencao :
              ArmazenadaValida(storage.blob[k].historicoManutencao[i])
  /\ ultima.op = "carregarGaragem" =>
       \A k \in DOMAIN garagem :
         \A i \in DOMAIN garagem[k].historicoManutencao :
           LET m == garagem[k].historicoManutencao[i]
           IN m.data \notin {DataNula, DataInvalida} /\ Trim(m.tipo) # ""

\* A load kept one record of the four stored for a vehicle, and a save then wrote a
\* history for it.
C24_Witness ==
  /\ Gravou
  /\ "manutRuim" \in DOMAIN garagem
  /\ "blob" \in DOMAIN storage
  /\ "manutRuim" \in DOMAIN storage.blob
  /\ Len(storage.blob["manutRuim"].historicoManutencao) >= 1

----------------------------------------------------------------------------
(* The history of one vehicle as shown: past and future records *)

\* carro.js:141-142: the records whose date is a real instant.
RECURSIVE HistValido(_)
HistValido(h) ==
  IF h = <<>> THEN <<>>
  ELSE (IF Head(h).data \notin {DataNula, DataInvalida} THEN <<Head(h)>> ELSE <<>>)
       \o HistValido(Tail(h))

\* Manutencao.formatar() and formatarComHora(): the text of the record m, short or with
\* the time, written as the record and the format used.
Formatada(m, formato) == [m |-> m, formato |-> formato]

\* carro.js:145: filter(m => m.data <= agora).map(m => m.formatar())
RECURSIVE Passadas(_, _)
Passadas(h, t) ==
  IF h = <<>> THEN <<>>
  ELSE (IF Head(h).data <= t THEN <<Formatada(Head(h), "curto")>> ELSE <<>>)
       \o Passadas(Tail(h), t)

\* carro.js:146: filter(m => m.data > agora).map(m => m.formatarComHora())
RECURSIVE Futuras(_, _)
Futuras(h, t) ==
  IF h = <<>> THEN <<>>
  ELSE (IF Head(h).data > t THEN <<Formatada(Head(h), "comHora")>> ELSE <<>>)
       \o Futuras(Tail(h), t)

\* The view that leaves a record dated exactly now out of both lists.
getHistoricoManutencaoFormatado_SemAgora(v, t) ==
  [passadas |-> Passadas(HistValido(v.historicoManutencao), t - 1),
   futuras |-> Futuras(HistValido(v.historicoManutencao), t)]

\* carro.js:138-149
getHistoricoManutencaoFormatado(v, t) ==
  [passadas |-> Passadas(HistValido(v.historicoManutencao), t),
   futuras |-> Futuras(HistValido(v.historicoManutencao), t)]

\* v.getHistoricoManutencaoFormatado() called on garagem[id].
GetHistoricoManutencaoFormatado(id) ==
  /\ id \in DOMAIN garagem
  /\ ultima' = Feito("getHistoricoManutencaoFormatado", id, NuloJS,
                     getHistoricoManutencaoFormatado(garagem[id], agora), <<>>, <<>>)
  /\ UNCHANGED <<garagem, storage, agora, leituras, aceitas, ctor>>

----------------------------------------------------------------------------
(* SpecVista: maintenance scheduled around the clock and the history viewed *)

NextVista ==
  \/ \E id \in IdsAgenda, f \in FormsAgenda : HandleAgendarManutencao(id, f.d, f.h, f.t, "ok")
  \/ \E id \in IdsAgenda : GetHistoricoManutencaoFormatado(id)

SpecVista == InitAgenda /\ [][NextVista]_vars

\* C25: the history view partitions the valid records of the history: the records dated
\* now or earlier are the past list and are not in the future list, the records dated
\* later are the future list and are not in the past list, each list in the order of
\* the stored history.
C25_VistaParticiona ==
  ultima.op = "getHistoricoManutencaoFormatado" =>
    LET h == garagem[ultima.id].historicoManutencao
        p == ultima.ret.passadas
        f == ultima.ret.futuras
    IN /\ [i \in DOMAIN p |-> p[i].m] = SelectSeq(h, LAMBDA m : m.data <= agora)
       /\ [i \in DOMAIN f |-> f[i].m] = SelectSeq(h, LAMBDA m : m.data > agora)
       /\ \A i \in DOMAIN p : \A j \in DOMAIN f : p[i].m # f[j].m

\* The view of a history of three records: one dated exactly now and an older one in
\* the past list, one in the future list.
C25_Witness ==
  /\ ultima.op = "getHistoricoManutencaoFormatado"
  /\ Len(ultima.ret.passadas) = 2
  /\ Len(ultima.ret.futuras) = 1
  /\ ultima.ret.passadas[1].m.data = agora

----------------------------------------------------------------------------
(* SpecTurbo: the turbo button pressed on the default vehicles *)

\* ativarTurbo switching the turbo on and never off.
ativarTurbo_SoLiga(v) == [v EXCEPT !.turboAtivado = TRUE]

\* CarroEsportivo.ativarTurbo(), defined in neither file: the flag is flipped.
ativarTurbo(v) == [v EXCEPT !.turboAtivado = ~@]

AlertaSoEsportivo == "Acao 'Turbo' apenas para Carros Esportivos."

\* garagem.js:380-398, 425-428: the turbo button of the displayed vehicle; only a
\* CarroEsportivo has its turbo changed, any other vehicle gets the notification.
InteragirAtivarTurbo(id) ==
  /\ id \in DOMAIN garagem
  /\ IF garagem[id].classe = "CarroEsportivo"
     THEN /\ garagem' = [garagem EXCEPT ![id] = ativarTurbo(@)]
          /\ ultima' = Feito("ativarTurbo", id, [antes |-> garagem[id].turboAtivado], "void",
                             <<>>, <<>>)
     ELSE /\ ultima' = Feito("ativarTurbo", id, NuloJS, "void", <<>>, <<AlertaSoEsportivo>>)
          /\ UNCHANGED garagem
  /\ UNCHANGED <<storage, agora, leituras, aceitas, ctor>>

NextTurbo ==
  \/ \E id \in IdsPadrao : InteragirAtivarTurbo(id)
  \/ \E acao \in {"ligar", "desligar", "acelerar"} : Interagir("carro2", acao)
  \/ \E r \in Resultados : SalvarGaragem(r)
  \/ CarregarGaragem("ok", "ok", "ok")

SpecTurbo == InitConstrutor /\ [][NextTurbo]_vars

\* C27: the turbo action flips the turbo flag of a CarroEsportivo on every call, so
\* that the second of two consecutive calls restores the value the first one found,
\* and changes no state when the vehicle is not a CarroEsportivo.
C27_TurboAlterna ==
  [][Acionou("ativarTurbo") =>
       LET v == garagem[ultima'.id]
       IN IF v.classe = "CarroEsportivo"
          THEN /\ garagem' = [garagem EXCEPT ![ultima'.id].turboAtivado = ~v.turboAtivado]
               /\ storage' = storage
               /\ (ultima.op = "ativarTurbo" /\ ultima.id = ultima'.id)
                     => garagem'[ultima'.id].turboAtivado = ultima.arg.antes
          ELSE /\ garagem' = garagem
               /\ storage' = storage]_vars

\* The turbo of the running Maverick was switched off by a press that found it on.
C27_Witness ==
  /\ ultima.op = "ativarTurbo"
  /\ ultima.id = "carro2"
  /\ ultima.arg = [antes |-> TRUE]
  /\ ~garagem["carro2"].turboAtivado
  /\ garagem["carro2"].ligado

----------------------------------------------------------------------------
(* SpecImagem: a read that outlives its vehicle *)

\* C31: when a vehicle is deleted while an image read started by an edit of it is
\* pending, the completed read neither puts the vehicle back into the fleet nor writes
\* it to the store: the fleet is the one before the read completed, a save that went
\* through stored a fleet without the vehicle and a save that failed stored nothing.
C31_LeituraAposExclusao ==
  [][(Operou({"imagemLida"}) /\ ultima'.arg.solto)
     => /\ ultima'.id \notin DOMAIN garagem'
        /\ garagem' = garagem
        /\ ultima'.saves = <<"ok">> => ultima'.id \notin IdsArmazenados(storage')
        /\ ultima'.saves # <<"ok">> => storage' = storage]_vars

\* The Fusca was deleted with its read pending; the read has completed with a new
\* image and its save went through: the Fusca is in neither the fleet nor the store.
C31_Witness ==
  /\ ultima.op = "imagemLida"
  /\ ultima.arg.solto
  /\ ultima.arg.nova # ultima.arg.antes
  /\ ultima.saves = <<"ok">>
  /\ "carro1" \notin DOMAIN garagem
  /\ "carro1" \notin IdsArmazenados(storage)

----------------------------------------------------------------------------
(* SpecArmazenado: the keys of the fleet and the ids of its vehicles *)

\* C32: after a load of a stored text that parses, every key k of the fleet holds a
\* vehicle whose id is k.
C32_IdIgualAChave ==
  CarregouDoArmazenado => \A k \in DOMAIN garagem : garagem[k].id = k

----------------------------------------------------------------------------
(* SpecPersistencia: vehicles added and edited, then loaded back *)

\* The add form with a model, as a car and as a truck.
FormsPersistencia == {f \in FormsAdicionar : f.tipo # ""}

\* The vehicles edited: the Fusca and the first vehicle added.
IdsPersistencia == {"carro1", IdNovo(0)}

\* The edits: nothing changed, the model blanked or renamed, the colour blanked.
AlteracoesPersistencia == {<<>>, [modelo |-> " "], [modelo |-> " Gol "], [cor |-> ""]}

NextPersistencia ==
  \/ \E f \in FormsPersistencia, r \in ResultadosFrota : HandleAdicionarVeiculo(f, r)
  \/ \E id \in IdsPersistencia, alt \in AlteracoesPersistencia, r \in ResultadosFrota :
        HandleSalvarEdicaoVeiculo(id, alt, r)
  \/ CarregarGaragem("ok", "ok", "ok")
  \/ Tick

SpecPersistencia == InitFrota /\ [][NextPersistencia]_vars

\* The last operation ended with a save that went through.
SalvouPorUltimo == ultima.saves # <<>> /\ ultima.saves[Len(ultima.saves)] = "ok"

\* C33: a load that immediately follows a successful save rebuilds every vehicle the
\* fleet held, under the same key and with the same id: no vehicle added or edited is
\* skipped by the minimal validation of the load.
C33_SalvoERecarregado ==
  [][(SalvouPorUltimo /\ Operou({"carregarGaragem"}))
     => /\ DOMAIN garagem' = DOMAIN garagem
        /\ \A k \in DOMAIN garagem : garagem'[k].id = garagem[k].id]_vars

\* A load has rebuilt the fleet with the truck added at instant 0 and the Fusca whose
\* colour an edit blanked.
C33_Witness ==
  /\ ultima.op = "carregarGaragem"
  /\ ultima.saves = <<>>
  /\ ultima.arg.antes = DOMAIN garagem
  /\ "v0" \in DOMAIN garagem
  /\ garagem["v0"].classe = "Caminhao"
  /\ garagem["v0"].modelo = "Gol"
  /\ ultima.arg.store.blob["carro1"].cor = ""

----------------------------------------------------------------------------
(* SpecCiclo: the Fusca driven, saved and loaded back *)

NextCiclo ==
  \/ \E acao \in AcoesComuns : Interagir("carro1", acao)
  \/ \E r \in ResultadosFrota : SalvarGaragem(r)
  \/ CarregarGaragem("ok", "ok", "ok")

SpecCiclo == InitConstrutor /\ [][NextCiclo]_vars

\* C34: in every state reached from a freshly built vehicle through start, stop,
\* accelerate, brake, saves and loads, a vehicle that is off has speed 0.
C34_DesligadoParado ==
  \A id \in DOMAIN garagem : ~garagem[id].ligado => garagem[id].velocidade = 0

\* The Fusca was saved running at 25 and then stopped: it is off at speed 0 and the
\* store still has it running.
C34_Witness ==
  /\ ultima.op = "desligar"
  /\ ~garagem["carro1"].ligado
  /\ garagem["carro1"].velocidade = 0
  /\ storage.blob["carro1"].ligado
  /\ storage.blob["carro1"].velocidade = 25

\* C38: start, stop, accelerate, brake and honk never write the store: the stored text
\* after the action is the one before it, so the stored speed and running flag change
\* only when another operation saves.
C38_AcoesNaoGravam ==
  [][Operou(AcoesComuns) => storage' = storage]_vars

\* The Fusca, stored off at speed 0, has been started, taken to 30 and honked.
C38_Witness ==
  /\ ultima.op = "buzinar"
  /\ garagem["carro1"].ligado
  /\ garagem["carro1"].velocidade = 30
  /\ ~storage.blob["carro1"].ligado
  /\ storage.blob["carro1"].velocidade = 0

----------------------------------------------------------------------------
(* SpecManut: a valid record and the save that follows it *)

\* C35: adicionarManutencao returns true exactly when the record is valid, whatever the
\* save it triggers returned, and a valid record is then in the history, the other
\* records kept; the record the scheduling form builds is kept the same way.
C35_ManutValidaMantida ==
  [][/\ Operou({"adicionarManutencao"}) =>
          /\ ultima'.ret = IF validar(ultima'.arg) THEN "true" ELSE "false"
          /\ validar(ultima'.arg) =>
                SeqParaBag(garagem'[ultima'.id].historicoManutencao)
                  = SeqParaBag(garagem[ultima'.id].historicoManutencao)
                      (+) SetToBag({ultima'.arg})
     /\ (Operou({"handleAgendarManutencao"}) /\ ultima'.arg # NuloJS) =>
          SeqParaBag(garagem'[ultima'.id].historicoManutencao)
            = SeqParaBag(garagem[ultima'.id].historicoManutencao)
                (+) SetToBag({ultima'.arg})]_vars

\* A valid record was added while the store was full: the call returned true, the
\* record is in the history and not in the store.
C35_Witness ==
  /\ ultima.op = "adicionarManutencao"
  /\ ultima.saves = <<"quota">>
  /\ ultima.ret = "true"
  /\ ultima.arg.tipo = "Freio"
  /\ \E i \in DOMAIN garagem["carro2"].historicoManutencao :
        garagem["carro2"].historicoManutencao[i] = ultima.arg
  /\ "blob" \in DOMAIN storage
       => \A i \in DOMAIN storage.blob["carro2"].historicoManutencao :
             storage.blob["carro2"].historicoManutencao[i].tipo # "Freio"

----------------------------------------------------------------------------
(* SpecCNH: the instant a licence counts as expired *)

\* C36: the licence alerts report a vehicle as expired exactly when the instant its
\* licence expires is strictly earlier than today at (local) midnight, whatever the
\* distance between the two instants.
C36_VencidaSeAnterior ==
  ultima.op = "verificarVencimentoCNH" =>
    \A id \in DOMAIN garagem :
      garagem[id].dataVencimentoCNH \notin {DataNula, DataInvalida} =>
        ((\E i \in DOMAIN ultima.ret : ultima.ret[i].id = id /\ ultima.ret[i].vencida)
           <=> garagem[id].dataVencimentoCNH < MeiaNoiteLocal(agora, ultima.arg.fuso))

----------------------------------------------------------------------------
(* SpecFotos: images read while vehicles are added, edited, deleted and loaded *)

\* The vehicles deleted: the Fusca, whose image is edited, and the vehicle added at
\* instant 0.
IdsFotos == {"carro1", IdNovo(0)}

\* Edits of the Fusca: an image file chosen, alone or with the colour changed.
AlteracoesFotos ==
  {[arquivo |-> [img |-> "data:img1"]],
   [cor |-> " Prata ", arquivo |-> [img |-> "data:img2"]]}

\* The add form as a truck; the clock stands still, so a second add takes the id of
\* the first, whose image an edit may have changed.
FormsFotos == {f \in FormsAdicionar : f.modelo = " Gol " /\ f.tipo = "Caminhao"}

NextFotos ==
  \/ \E alt \in AlteracoesFotos, r \in ResultadosFrota :
        HandleSalvarEdicaoVeiculo("carro1", alt, r)
  \/ HandleSalvarEdicaoVeiculo(IdNovo(0), [arquivo |-> [img |-> "data:img1"]], "ok")
  \/ \E i \in 1..MaxLeituras, r \in ResultadosFrota : ImagemLida(i, r)
  \/ \E i \in 1..MaxLeituras : ImagemErro(i)
  \/ \E f \in FormsFotos, r \in ResultadosFrota : HandleAdicionarVeiculo(f, r)
  \/ \E id \in IdsFotos, r \in ResultadosFrota : HandleExcluirVeiculo(id, r)
  \/ CarregarGaragem("ok", "ok", "ok")

SpecFotos == InitConstrutor /\ [][NextFotos]_vars

\* C37: in every state reached through loads, adds, edits with or without an image,
\* deletes and failed saves, a vehicle that is both in the fleet and in the stored text
\* has in memory the image the stored text has for it.
C37_ImagemIgualAArmazenada ==
  \A id \in DOMAIN garagem \cap IdsArmazenados(storage) :
    garagem[id].imagemSrc = storage.blob[id].imagemSrc

\* A second image was read over a first one already saved and its save hit the quota:
\* the Fusca and the stored text both show the first image.
C37_Witness ==
  /\ ultima.op = "imagemLida"
  /\ ultima.id = "carro1"
  /\ ultima.arg.antes = "data:img1"
  /\ ultima.arg.nova = "data:img2"
  /\ ultima.saves = <<"quota">>
  /\ "carro1" \in DOMAIN garagem \cap IdsArmazenados(storage)
  /\ garagem["carro1"].imagemSrc = "data:img1"
  /\ storage.blob["carro1"].imagemSrc = "data:img1"

====
